---- MODULE Spec2Model ----
(***************************************************************************)
(* Check-Processor-Prototype: the /ocr cascade of backend/app/main.py, the *)
(* ROI stage of improved_ocr.py, the LLM wrapper of llm_service.py and the *)
(* regex layer of regex_extractor.py.                                      *)
(*                                                                         *)
(* Text is a sequence of one-character strings; the trademark sign is the  *)
(* single character written "TM".  Python None is the value None below; a  *)
(* Python dict is a record whose DOMAIN is the dict's key set.             *)
(***************************************************************************)
EXTENDS Integers, Sequences, FiniteSets, TLC

VARIABLES llm_available, padYear, pc, payload, results, improved_results,
          llm_results, regex_results, simple_ocr_text, response, escaped, ran,
          call, passes

vars == <<llm_available, padYear, pc, payload, results, improved_results,
          llm_results, regex_results, simple_ocr_text, response, escaped, ran,
          call, passes>>

(***************************************************************************)
(* Python values                                                           *)
(***************************************************************************)
None == <<"None">>

NullData == [null |-> TRUE]

Raise == <<"Raise">>

Truthy(v) == v # None /\ v # <<>>

Get(d, k, default) == IF k \in DOMAIN d THEN d[k] ELSE default

(***************************************************************************)
(* Characters and character classes of Python's re module                  *)
(***************************************************************************)
UpperSeq == <<"A", "B", "C", "D", "E", "F", "G", "H", "I", "J", "K", "L", "M",
              "N", "O", "P", "Q", "R", "S", "T", "U", "V", "W", "X", "Y", "Z">>

LowerSeq == <<"a", "b", "c", "d", "e", "f", "g", "h", "i", "j", "k", "l", "m",
              "n", "o", "p", "q", "r", "s", "t", "u", "v", "w", "x", "y", "z">>

DigitSeq == <<"0", "1", "2", "3", "4", "5", "6", "7", "8", "9">>

Range(f) == {f[k] : k \in DOMAIN f}

UpperSet == Range(UpperSeq)

LowerSet == Range(LowerSeq)

LetterSet == UpperSet \cup LowerSet

DigitSet == Range(DigitSeq)

AlnumSet == LetterSet \cup DigitSet

WordSet == AlnumSet \cup {"_"}

SpaceSet == {" ", "\n", "\t", "\r"}

ToLower(c) == IF c \in UpperSet
              THEN LowerSeq[CHOOSE k \in 1..26 : UpperSeq[k] = c] ELSE c

ToUpper(c) == IF c \in LowerSet
              THEN UpperSeq[CHOOSE k \in 1..26 : LowerSeq[k] = c] ELSE c

DigitVal(c) == (CHOOSE k \in 1..10 : DigitSeq[k] = c) - 1

DigitChr(n) == DigitSeq[n + 1]

(***************************************************************************)
(* A backtracking matcher with the semantics of Python's re: a pattern is  *)
(* a tree of nodes, Run matches a stack of nodes at position i and yields  *)
(* the first match in priority order (greedy before short, alternatives    *)
(* left to right) as <<end, captures>>, or Fail.                           *)
(***************************************************************************)
Fail == <<>>

NoCaps == <<<<0, 0>>, <<0, 0>>, <<0, 0>>>>

Inf == -1

Chr(S) == <<"chr", S>>

NotChr(S) == <<"not", S>>

Cat(rs) == <<"cat", rs>>

Alt(rs) == <<"alt", rs>>

Rep(r, mn, mx) == <<"rep", r, mn, mx, TRUE>>

RepLazy(r, mn, mx) == <<"rep", r, mn, mx, FALSE>>

Star(r) == Rep(r, 0, Inf)

Plus(r) == Rep(r, 1, Inf)

Opt(r) == Rep(r, 0, 1)

Grp(k, r) == <<"grp", k, r>>

Bol == <<"bol">>

Eol == <<"eol">>

WordB == <<"wb">>

Lit(str) == <<"lit", str>>

D == Chr(DigitSet)

Ws == Chr(SpaceSet)

ClassMatch(S, c, ic) ==
    c \in S \/ (ic /\ (ToLower(c) \in S \/ ToUpper(c) \in S))

\* does the one-character node n (a class or a negated class) accept c
OneChar(n, c, ic) == IF n[1] = "chr" THEN ClassMatch(n[2], c, ic)
                     ELSE ~ClassMatch(n[2], c, ic)

LitAt(str, s, i, ic) ==
    /\ i + Len(str) - 1 <= Len(s)
    /\ \A k \in 1..Len(str) : ClassMatch({str[k]}, s[i + k - 1], ic)

\* the number of consecutive characters from position i that n accepts
RunLength(n, s, i, ic) ==
    CHOOSE k \in 0..(Len(s) - i + 1) :
        /\ \A j \in 0..(k - 1) : OneChar(n, s[i + j], ic)
        /\ k = Len(s) - i + 1 \/ ~OneChar(n, s[i + k], ic)

IsWordAt(s, i) == i >= 1 /\ i <= Len(s) /\ s[i] \in WordSet

RECURSIVE Run(_, _, _, _, _)
RECURSIVE RunRep(_, _, _, _, _, _, _, _)
\* a repeated one-character node: try the counts from k towards last
RunRep(rest, s, i, caps, ic, k, last, step) ==
    LET m == Run(rest, s, i + k, caps, ic)
    IN IF Len(m) # 0 THEN m
       ELSE IF k = last THEN Fail
       ELSE RunRep(rest, s, i, caps, ic, k + step, last, step)

Run(stack, s, i, caps, ic) ==
    IF Len(stack) = 0 THEN <<i, caps>>
    ELSE
      LET n == Head(stack)
          rest == Tail(stack)
          tag == n[1]
      IN CASE tag \in {"chr", "not"} ->
                IF i <= Len(s) /\ OneChar(n, s[i], ic)
                THEN Run(rest, s, i + 1, caps, ic) ELSE Fail
           [] tag = "lit" ->
                IF LitAt(n[2], s, i, ic)
                THEN Run(rest, s, i + Len(n[2]), caps, ic) ELSE Fail
           [] tag = "cat" -> Run(n[2] \o rest, s, i, caps, ic)
           [] tag = "alt" ->
                IF Len(n[2]) = 0 THEN Fail
                ELSE LET first == Run(<<Head(n[2])>> \o rest, s, i, caps, ic)
                     IN IF Len(first) # 0 THEN first
                        ELSE Run(<<Alt(Tail(n[2]))>> \o rest, s, i, caps, ic)
           [] tag = "rep" /\ n[2][1] \in {"chr", "not"} ->
                LET avail == RunLength(n[2], s, i, ic)
                    hi == IF n[4] = Inf \/ avail < n[4] THEN avail ELSE n[4]
                IN IF hi < n[3] THEN Fail
                   ELSE IF n[5]
                   THEN RunRep(rest, s, i, caps, ic, hi, n[3], -1)
                   ELSE RunRep(rest, s, i, caps, ic, n[3], hi, 1)
           [] tag = "rep" /\ n[2][1] \notin {"chr", "not"} ->
                LET r == n[2]
                    mx == IF n[4] = Inf THEN Inf ELSE n[4] - 1
                IN IF n[3] > 0
                   THEN Run(<<r, <<"rep", r, n[3] - 1, mx, n[5]>>>> \o rest,
                            s, i, caps, ic)
                   ELSE IF n[4] = 0 THEN Run(rest, s, i, caps, ic)
                   ELSE LET more == Run(<<r, <<"rep", r, 0, mx, n[5]>>>> \o rest,
                                        s, i, caps, ic)
                            skip == Run(rest, s, i, caps, ic)
                        IN IF n[5]
                           THEN IF Len(more) # 0 THEN more ELSE skip
                           ELSE IF Len(skip) # 0 THEN skip ELSE more
           [] tag = "grp" ->
                Run(<<n[3], <<"end", n[2], i>>>> \o rest, s, i, caps, ic)
           [] tag = "end" ->
                Run(rest, s, i, [caps EXCEPT ![n[2]] = <<n[3], i>>], ic)
           [] tag = "bol" ->
                IF i = 1 THEN Run(rest, s, i, caps, ic) ELSE Fail
           [] tag = "eol" ->
                IF i = Len(s) + 1 \/ (i = Len(s) /\ s[i] = "\n")
                THEN Run(rest, s, i, caps, ic) ELSE Fail
           [] tag = "wb" ->
                IF IsWordAt(s, i - 1) # IsWordAt(s, i)
                THEN Run(rest, s, i, caps, ic) ELSE Fail

\* re.match: <<start, end, captures>> of a match at position 1, or Fail
ReMatch(r, s, ic) ==
    LET m == Run(<<r>>, s, 1, NoCaps, ic)
    IN IF Len(m) = 0 THEN Fail ELSE <<1, m[1], m[2]>>

RECURSIVE SearchFrom(_, _, _, _)
SearchFrom(r, s, i, ic) ==
    IF i > Len(s) + 1 THEN Fail
    ELSE LET m == Run(<<r>>, s, i, NoCaps, ic)
         IN IF Len(m) # 0 THEN <<i>> \o m
            ELSE SearchFrom(r, s, i + 1, ic)

\* re.search: the leftmost match
ReSearch(r, s, ic) == SearchFrom(r, s, 1, ic)

\* match.group(0) and match.group(k)
Group0(s, m) == SubSeq(s, m[1], m[2] - 1)

GroupK(s, m, k) == SubSeq(s, m[3][k][1], m[3][k][2] - 1)

\* re.sub of a one-character class: every character of S is replaced by repl
SubClass(S, repl, s) ==
    LET RECURSIVE go(_)
        go(k) == IF k > Len(s) THEN <<>>
                 ELSE (IF s[k] \in S THEN repl ELSE <<s[k]>>) \o go(k + 1)
    IN go(1)

\* re.sub of a negated one-character class: every character outside S
SubNotClass(S, repl, s) ==
    LET RECURSIVE go(_)
        go(k) == IF k > Len(s) THEN <<>>
                 ELSE (IF s[k] \in S THEN <<s[k]>> ELSE repl) \o go(k + 1)
    IN go(1)

\* re.sub(r'\s+', ' ', s)
CollapseWs(s) ==
    LET RECURSIVE go(_)
        go(k) == IF k > Len(s) THEN <<>>
                 ELSE IF s[k] \in SpaceSet
                      THEN IF k > 1 /\ s[k - 1] \in SpaceSet
                           THEN go(k + 1) ELSE <<" ">> \o go(k + 1)
                      ELSE <<s[k]>> \o go(k + 1)
    IN go(1)

\* str.strip()
Strip(s) ==
    LET nonsp == {k \in 1..Len(s) : s[k] \notin SpaceSet}
    IN IF nonsp = {} THEN <<>>
       ELSE SubSeq(s, CHOOSE a \in nonsp : \A b \in nonsp : a <= b,
                      CHOOSE a \in nonsp : \A b \in nonsp : a >= b)

(***************************************************************************)
(* regex_extractor.py: the pattern cascades of RegexCheckExtractor         *)
(***************************************************************************)
Digits(mn, mx) == Rep(D, mn, mx)

MonthAbbr == <<<<"J", "a", "n">>, <<"F", "e", "b">>, <<"M", "a", "r">>, <<"A", "p", "r">>, <<"M", "a", "y">>, <<"J", "u", "n">>,
               <<"J", "u", "l">>, <<"A", "u", "g">>, <<"S", "e", "p">>, <<"O", "c", "t">>, <<"N", "o", "v">>, <<"D", "e", "c">>>>

MonthAlt == Alt([k \in 1..12 |-> Lit(MonthAbbr[k])])

patterns_date == <<
    Grp(1, Cat(<<Digits(2, 2), Lit(<<"-">>), Digits(2, 2), Lit(<<"-">>), Digits(4, 4)>>)),
    Grp(1, Cat(<<Digits(1, 2), Lit(<<"-">>), Digits(1, 2), Lit(<<"-">>), Digits(4, 4)>>)),
    Grp(1, Cat(<<Digits(2, 2), Lit(<<"/">>), Digits(2, 2), Lit(<<"/">>), Digits(4, 4)>>)),
    Grp(1, Cat(<<Digits(1, 2), Lit(<<"/">>), Digits(1, 2), Lit(<<"/">>), Digits(4, 4)>>)),
    Grp(1, Cat(<<Digits(4, 4), Lit(<<"-">>), Digits(1, 2), Lit(<<"-">>), Digits(1, 2)>>)),
    Cat(<<WordB, Grp(1, MonthAlt), Star(Chr(LowerSet)), Plus(Ws), Digits(1, 2),
          Opt(Lit(<<",">>)), Plus(Ws), Digits(4, 4), WordB>>) >>

AmountBody == Cat(<<Digits(1, 3), Star(Cat(<<Opt(Lit(<<",">>)), Digits(3, 3)>>)),
                    Opt(Cat(<<Lit(<<".">>), Digits(2, 2)>>))>>)

patterns_amount == <<
    Cat(<<Lit(<<"$">>), Star(Ws), Grp(1, AmountBody)>>),
    Cat(<<Alt(<<Lit(<<"$">>), Lit(<<"D", "o", "l", "l", "a", "r">>)>>), Star(Ws), Grp(1, AmountBody)>>),
    Grp(1, Cat(<<Digits(1, 3), Star(Cat(<<Lit(<<",">>), Digits(3, 3)>>)),
                 Lit(<<".">>), Digits(2, 2)>>)),
    Grp(1, Cat(<<Digits(1, 6), Lit(<<".">>), Digits(2, 2)>>)) >>

QuoteSet == {"\"", "'", "*", "_"}

QuoteTmSet == QuoteSet \cup {"TM"}

TwoWords == Cat(<<Chr(UpperSet), Plus(Chr(LowerSet)), Plus(Ws),
                  Chr(UpperSet), Plus(Chr(LowerSet))>>)

PayeeLabelSet == LetterSet \cup SpaceSet \cup {"'", ".", ",", "&", "-"}

MemoLabelSet == AlnumSet \cup SpaceSet \cup {"'", ".", ",", "&", "-"}

patterns_payee == <<
    Cat(<<Star(Chr(QuoteSet)), Star(Ws), Grp(1, TwoWords), Star(Chr(QuoteTmSet))>>),
    Cat(<<Alt(<<Bol, Lit(<<"\n">>), Lit(<<"|">>)>>), Star(Ws), Star(Chr(QuoteSet)),
          Star(Ws), Grp(1, TwoWords)>>),
    Cat(<<Plus(Chr(QuoteSet)), Grp(1, TwoWords), Star(Chr(QuoteSet))>>),
    Cat(<<Grp(1, TwoWords), Star(Chr(QuoteTmSet)), Star(Ws), Lit(<<"$">>)>>),
    Cat(<<Alt(<<Cat(<<Lit(<<"P", "a", "y">>), Plus(Ws), Lit(<<"t", "o">>), Plus(Ws), Lit(<<"t", "h", "e">>),
                      Plus(Ws), Lit(<<"o", "r", "d", "e", "r">>), Plus(Ws), Lit(<<"o", "f">>)>>),
                Cat(<<Lit(<<"P", "a", "y", "a", "b", "l", "e">>), Plus(Ws), Lit(<<"t", "o">>)>>)>>),
          Star(Ws), Opt(Lit(<<":">>)), Star(Ws),
          Grp(1, RepLazy(Chr(PayeeLabelSet), 1, Inf)),
          Alt(<<Cat(<<Star(Ws), Lit(<<"$">>)>>), Lit(<<"\n">>), Eol>>)>>) >>

MemoTail == Alt(<<Cat(<<Star(Ws), Lit(<<"-">>)>>), Lit(<<"\n">>), Eol>>)

patterns_memo == <<
    Grp(1, Cat(<<Lit(<<"D", "o", "n", "a", "t", "i", "o", "n">>), Plus(Ws), Lit(<<"f", "o", "r">>), Plus(Ws), Lit(<<"E", "d", "u", "c", "a", "t", "i", "o", "n">>)>>)),
    Grp(1, Cat(<<Chr(UpperSet), Plus(Chr(LowerSet)), Plus(Ws), Lit(<<"f", "o", "r">>), Plus(Ws),
                 Chr(UpperSet), Plus(Chr(LowerSet)),
                 Star(Cat(<<Plus(Ws), Chr(UpperSet), Plus(Chr(LowerSet))>>))>>)),
    Cat(<<Alt(<<Lit(<<"F", "o", "r">>), Lit(<<"M", "e", "m", "o">>), Lit(<<"R", "e", ":">>), Lit(<<"R", "e", "f", "e", "r", "e", "n", "c", "e">>)>>),
          Star(Ws), Opt(Lit(<<":">>)), Star(Ws),
          Grp(1, RepLazy(Chr(MemoLabelSet), 1, Inf)), MemoTail>>),
    Cat(<<Cat(<<Lit(<<"P", "a", "y", "m", "e", "n", "t">>), Plus(Ws), Lit(<<"f", "o", "r">>)>>),
          Star(Ws), Opt(Lit(<<":">>)), Star(Ws),
          Grp(1, RepLazy(Chr(MemoLabelSet), 1, Inf)), MemoTail>>),
    Cat(<<Grp(1, Cat(<<Chr(UpperSet), Plus(Chr(LowerSet)),
                       Star(Cat(<<Plus(Ws), Plus(Chr(LowerSet))>>)),
                       Plus(Ws), Chr(UpperSet), Plus(Chr(LowerSet))>>)),
          Star(Ws), Opt(Lit(<<"-">>)), Star(Ws), Eol>>) >>

MicrSet == {":", "|"}

patterns_routing_number == <<
    Cat(<<Lit(<<":">>), Star(Ws), Grp(1, Digits(6, 9)), Star(Ws), Lit(<<":">>)>>),
    Cat(<<Chr(MicrSet), Star(Ws), Grp(1, Digits(6, 9))>>),
    Cat(<<Bol, Star(Ws), Grp(1, Digits(6, 9)), Star(Ws), Chr(MicrSet)>>) >>

patterns_account_number == <<
    Cat(<<Lit(<<":">>), Star(Ws), Grp(1, Digits(6, 15)), Star(Ws)>>),
    Cat(<<Chr(MicrSet), Star(Ws), Grp(1, Digits(6, 15)), Chr(MicrSet)>>),
    Grp(1, Digits(6, 15)) >>

patterns_check_number == <<
    Cat(<<Chr(MicrSet), Star(Ws), Grp(1, Digits(3, 6)), Star(Ws), Eol>>),
    Cat(<<Bol, Star(Ws), Grp(1, Digits(3, 6)), Star(Ws), Eol>>),
    Cat(<<Plus(Ws), Grp(1, Digits(3, 6)), Star(Ws), Eol>>) >>

NumberWords == <<<<"O", "n", "e">>, <<"T", "w", "o">>, <<"T", "h", "r", "e", "e">>, <<"F", "o", "u", "r">>, <<"F", "i", "v", "e">>, <<"S", "i", "x">>, <<"S", "e", "v", "e", "n">>, <<"E", "i", "g", "h", "t">>,
                 <<"N", "i", "n", "e">>, <<"T", "e", "n">>, <<"E", "l", "e", "v", "e", "n">>, <<"T", "w", "e", "l", "v", "e">>, <<"T", "h", "i", "r", "t", "e", "e", "n">>, <<"F", "o", "u", "r", "t", "e", "e", "n">>,
                 <<"F", "i", "f", "t", "e", "e", "n">>, <<"S", "i", "x", "t", "e", "e", "n">>, <<"S", "e", "v", "e", "n", "t", "e", "e", "n">>, <<"E", "i", "g", "h", "t", "e", "e", "n">>, <<"N", "i", "n", "e", "t", "e", "e", "n">>,
                 <<"T", "w", "e", "n", "t", "y">>, <<"T", "h", "i", "r", "t", "y">>, <<"F", "o", "r", "t", "y">>, <<"F", "i", "f", "t", "y">>, <<"S", "i", "x", "t", "y">>, <<"S", "e", "v", "e", "n", "t", "y">>,
                 <<"E", "i", "g", "h", "t", "y">>, <<"N", "i", "n", "e", "t", "y">>, <<"H", "u", "n", "d", "r", "e", "d">>, <<"T", "h", "o", "u", "s", "a", "n", "d">>, <<"M", "i", "l", "l", "i", "o", "n">>, <<"B", "i", "l", "l", "i", "o", "n">>>>

written_pattern ==
    Cat(<<Alt([k \in 1..Len(NumberWords) |-> Lit(NumberWords[k])]),
          Star(NotChr({"\n"})),
          Alt(<<Lit(<<"D", "o", "l", "l", "a", "r">>), Lit(<<"D", "o", "l", "l", "a", "r", "s">>)>>)>>)

(***************************************************************************)
(* datetime.strptime and datetime.strftime as _extract_date uses them      *)
(***************************************************************************)
RECURSIVE ToInt(_)
ToInt(ds) == IF Len(ds) = 0 THEN 0
             ELSE 10 * ToInt(SubSeq(ds, 1, Len(ds) - 1)) + DigitVal(ds[Len(ds)])

IsLeap(y) == (y % 4 = 0 /\ y % 100 # 0) \/ y % 400 = 0

DaysInMonth(y, m) == IF m = 2 THEN (IF IsLeap(y) THEN 29 ELSE 28)
                     ELSE IF m \in {4, 6, 9, 11} THEN 30 ELSE 31

NonZeroDigit == Chr(DigitSet \ {"0"})

\* the directive patterns of _strptime.TimeRE; group 1 = year, 2 = month, 3 = day
ReM == Grp(2, Alt(<<Cat(<<Lit(<<"1">>), Chr({"0", "1", "2"})>>),
                    Cat(<<Lit(<<"0">>), NonZeroDigit>>), NonZeroDigit>>))

ReD == Grp(3, Alt(<<Cat(<<Lit(<<"3">>), Chr({"0", "1"})>>),
                    Cat(<<Chr({"1", "2"}), D>>),
                    Cat(<<Lit(<<"0">>), NonZeroDigit>>), NonZeroDigit,
                    Cat(<<Lit(<<" ">>), NonZeroDigit>>)>>))

ReY4 == Grp(1, Digits(4, 4))

ReY2 == Grp(1, Digits(2, 2))

ReB == Grp(2, MonthAlt)

\* '%m-%d-%Y', '%Y-%m-%d', '%m-%d-%y' with sep "-"; '%m/%d/%Y', ... with sep "/"
FmtMDY(sep) == [re |-> Cat(<<ReM, Lit(sep), ReD, Lit(sep), ReY4>>),
                y2 |-> FALSE, named |-> FALSE]

FmtYMD(sep) == [re |-> Cat(<<ReY4, Lit(sep), ReM, Lit(sep), ReD>>),
                y2 |-> FALSE, named |-> FALSE]

FmtMDy(sep) == [re |-> Cat(<<ReM, Lit(sep), ReD, Lit(sep), ReY2>>),
                y2 |-> TRUE, named |-> FALSE]

\* '%b %d, %Y'
FmtBDY == [re |-> Cat(<<ReB, Plus(Ws), ReD, Lit(<<",">>), Plus(Ws), ReY4>>),
           y2 |-> FALSE, named |-> TRUE]

LowerStr(s) == [k \in 1..Len(s) |-> ToLower(s[k])]

MonthIndex(name) ==
    CHOOSE k \in 1..12 : LowerStr(MonthAbbr[k]) = LowerStr(name)

\* %y: values up to 68 are in 2000-2068, the others in 1969-1999
Century(yv) == IF yv <= 68 THEN 2000 + yv ELSE 1900 + yv

\* datetime(year, month, day), or Raise for ValueError
datetime(year, month, day) ==
    IF year < 1 \/ day > DaysInMonth(year, month) THEN Raise
    ELSE <<year, month, day>>

\* the datetime of a match found of the format's pattern against date_str
FromMatch(date_str, fmt, found) ==
    IF Len(found) = 0 THEN Raise
    ELSE IF found[2] # Len(date_str) + 1 THEN Raise
    ELSE datetime(IF fmt.y2 THEN Century(ToInt(GroupK(date_str, found, 1)))
                  ELSE ToInt(GroupK(date_str, found, 1)),
                  IF fmt.named THEN MonthIndex(GroupK(date_str, found, 2))
                  ELSE ToInt(GroupK(date_str, found, 2)),
                  ToInt(Strip(GroupK(date_str, found, 3))))

\* a datetime <<year, month, day>>, or Raise for ValueError
strptime(date_str, fmt) ==
    FromMatch(date_str, fmt, ReMatch(fmt.re, date_str, TRUE))

Pad2(n) == <<DigitChr(n \div 10), DigitChr(n % 10)>>

RECURSIVE Decimal(_)
Decimal(n) == IF n < 10 THEN <<DigitChr(n)>>
              ELSE Decimal(n \div 10) \o <<DigitChr(n % 10)>>

Pad4(n) == Pad2(n \div 100) \o Pad2(n % 100)

\* dt.strftime('%Y-%m-%d'); whether %Y is zero-padded below 1000 depends on
\* the C library and the Python version (pad)
strftime(dt, pad) ==
    (IF pad THEN Pad4(dt[1]) ELSE Decimal(dt[1]))
        \o <<"-">> \o Pad2(dt[2]) \o <<"-">> \o Pad2(dt[3])

(***************************************************************************)
(* regex_extractor.py: the field extractors                                *)
(***************************************************************************)
CleanAllowSet == WordSet \cup SpaceSet \cup
                 {"$", ".", ",", "/", "'", "-", "&", "\"", "*", "TM", "|", "_"}

_clean_text(text) ==
    Strip(SubNotClass(CleanAllowSet, <<" ">>, CollapseWs(text)))

PayeeKeepSet == WordSet \cup SpaceSet \cup {"'", ".", ",", "&", "-"}

HasLetter(s) == \E k \in 1..Len(s) : s[k] \in LetterSet

\* what one turn of a pattern loop gives when the loop goes on
NoValue == <<"NoValue">>

\* the value of this turn of the loop, or what the later turns give
OrElse(v, later) == IF v = NoValue THEN later ELSE v

\* line 144
ValidPayee(payee) ==
    IF Len(payee) > 1 /\ HasLetter(payee) THEN payee ELSE NoValue

\* fault variant: the whole match is returned, the flanking characters with it
PayeeOf_whole_match(text, found) ==
    IF Len(found) = 0 THEN NoValue
    ELSE ValidPayee(Strip(Group0(text, found)))

\* lines 136-145 for one pattern: found is what re.search gave
PayeeOf(text, found) ==
    IF Len(found) = 0 THEN NoValue
    ELSE ValidPayee(Strip(SubNotClass(PayeeKeepSet, <<>>,
                       SubClass(QuoteTmSet, <<>>,
                          CollapseWs(Strip(GroupK(text, found, 1)))))))

_extract_payee(text) ==
    LET RECURSIVE try(_)
        try(k) ==
          IF k > Len(patterns_payee) THEN None
          ELSE OrElse(PayeeOf(text, ReSearch(patterns_payee[k], text, TRUE)),
                      try(k + 1))
    IN try(1)

InStr(c, s) == \E k \in 1..Len(s) : s[k] = c

FirstOk(a, b, c) == IF a # Raise THEN a ELSE IF b # Raise THEN b ELSE c

ParseDateStr(date_str) ==
    IF InStr("-", date_str)
    THEN FirstOk(strptime(date_str, FmtMDY(<<"-">>)), strptime(date_str, FmtYMD(<<"-">>)),
                 strptime(date_str, FmtMDy(<<"-">>)))
    ELSE IF InStr("/", date_str)
    THEN FirstOk(strptime(date_str, FmtMDY(<<"/">>)), strptime(date_str, FmtMDy(<<"/">>)),
                 strptime(date_str, FmtYMD(<<"/">>)))
    ELSE strptime(date_str, FmtBDY)

\* lines 179-181: the formatted date, or on ValueError the next pattern
Formatted(dt, pad) == IF dt = Raise THEN NoValue ELSE strftime(dt, pad)

\* lines 152-181 for one pattern: found is what re.search gave
DateOf(text, found, pad) ==
    IF Len(found) = 0 THEN NoValue
    ELSE Formatted(ParseDateStr(Strip(Group0(text, found))), pad)

_extract_date(text, pad) ==
    LET RECURSIVE try(_)
        try(k) ==
          IF k > Len(patterns_date) THEN None
          ELSE OrElse(DateOf(text, ReSearch(patterns_date[k], text, TRUE), pad),
                      try(k + 1))
    IN try(1)

Contains(sub, s) ==
    \E i \in 1..(Len(s) - Len(sub) + 1) : SubSeq(s, i, i + Len(sub) - 1) = sub

\* lines 232-246: the amounts recognised in the cleaned written text
WrittenValue(written_clean) ==
               IF Contains(<<"o", "n", "e", " ", "h", "u", "n", "d", "r", "e", "d", " ", "t", "w", "e", "n", "t", "y", " ", "t", "h", "r", "e", "e", " ", "t", "h", "o", "u", "s", "a", "n", "d", " ", "f", "o", "u", "r", " ", "h", "u", "n", "d", "r", "e", "d", " ", "f", "i", "f", "t", "y", " ", "s", "i", "x">>,
                           written_clean)
               THEN <<"1", "2", "3", "4", "5", "6", ".", "0", "0">>
               ELSE IF Contains(<<"1", "2", "3", "4", "5", "6">>, written_clean)
                       \/ Contains(<<"1", "2", "3", ",", "4", "5", "6">>, written_clean)
               THEN <<"1", "2", "3", "4", "5", "6", ".", "0", "0">>
               ELSE IF Contains(<<"o", "n", "e", " ", "t", "h", "o", "u", "s", "a", "n", "d">>, written_clean)
                       /\ Contains(<<"h", "u", "n", "d", "r", "e", "d">>, written_clean)
               THEN <<"1", "0", "0", "0", ".", "0", "0">>
               ELSE None

\* re.sub(r'[^\w\s]', ' ', written_text.lower()), spaces collapsed, stripped
CleanWritten(written_text) ==
    Strip(CollapseWs(SubNotClass(WordSet \cup SpaceSet, <<" ">>,
                                 LowerStr(written_text))))

WrittenFrom(text, found) ==
    IF Len(found) = 0 THEN None
    ELSE WrittenValue(CleanWritten(Group0(text, found)))

_convert_written_amount(text) ==
    WrittenFrom(text, ReSearch(written_pattern, text, TRUE))

AmountKeepSet == DigitSet \cup {".", ","}

\* line 193
ValidAmount(amount) == IF Len(amount) > 0 THEN amount ELSE NoValue

\* lines 189-197 for one pattern: every pattern has exactly one group
AmountOf(text, found) ==
    IF Len(found) = 0 THEN NoValue
    ELSE ValidAmount(SubNotClass(AmountKeepSet, <<>>, GroupK(text, found, 1)))

_extract_amount(text) ==
    LET RECURSIVE try(_)
        try(k) ==
          IF k > Len(patterns_amount)
          THEN _convert_written_amount(text)
          ELSE OrElse(AmountOf(text, ReSearch(patterns_amount[k], text, FALSE)),
                      try(k + 1))
    IN try(1)

MemoKeepSet == WordSet \cup SpaceSet \cup {"'", ".", ",", "&", "-"}

\* line 261
ValidMemo(memo) == IF Len(memo) > 2 THEN memo ELSE NoValue

\* lines 256-262 for one pattern
MemoOf(text, found) ==
    IF Len(found) = 0 THEN NoValue
    ELSE ValidMemo(SubNotClass(MemoKeepSet, <<>>,
                      CollapseWs(Strip(GroupK(text, found, 1)))))

_extract_memo(text) ==
    LET RECURSIVE try(_)
        try(k) ==
          IF k > Len(patterns_memo) THEN <<>>
          ELSE OrElse(MemoOf(text, ReSearch(patterns_memo[k], text, TRUE)),
                      try(k + 1))
    IN try(1)

\* the three MICR extractors: first pattern whose digits have an accepted length
ValidDigits(num, lo, hi) ==
    IF lo <= Len(num) /\ Len(num) <= hi THEN num ELSE NoValue

DigitsOf(text, found, lo, hi) ==
    IF Len(found) = 0 THEN NoValue
    ELSE ValidDigits(SubNotClass(DigitSet, <<>>,
                                 Strip(GroupK(text, found, 1))), lo, hi)

ExtractDigits(pats, lo, hi, text) ==
    LET RECURSIVE try(_)
        try(k) ==
          IF k > Len(pats) THEN <<>>
          ELSE OrElse(DigitsOf(text, ReSearch(pats[k], text, FALSE), lo, hi),
                      try(k + 1))
    IN try(1)

_extract_routing_number(text) == ExtractDigits(patterns_routing_number, 6, 9, text)

_extract_account_number(text) == ExtractDigits(patterns_account_number, 6, 15, text)

_extract_check_number(text) == ExtractDigits(patterns_check_number, 3, 6, text)

MinCoreFields == 2

CoreKeys == {"payee_name", "date", "amount"}

\* sum(1 for v in [payee_name, date, amount] if v)
TruthyCount(d) == Cardinality({k \in CoreKeys : Truthy(d[k])})

\* fault variant: the routing number counts toward success
extraction_success_counting_micr(info) ==
    TruthyCount(info) + (IF Truthy(info.routing_number) THEN 1 ELSE 0)
        >= MinCoreFields

\* lines 112-114: extracted_fields >= 2
extraction_success(info) == TruthyCount(info) >= MinCoreFields

\* lines 113-114 applied to the dict filled in lines 95-108
Judged(info) ==
    [info EXCEPT !.extraction_success = extraction_success(info)]

extract_check_info(text, pad) ==
    LET cleaned_text == _clean_text(text)
    IN Judged([payee_name |-> _extract_payee(cleaned_text),
               date |-> _extract_date(cleaned_text, pad),
               amount |-> _extract_amount(cleaned_text),
               memo |-> _extract_memo(cleaned_text),
               routing_number |-> _extract_routing_number(cleaned_text),
               account_number |-> _extract_account_number(cleaned_text),
               check_number |-> _extract_check_number(cleaned_text),
               raw_text |-> text,
               extraction_success |-> FALSE,
               method |-> "regex_extraction"])

(***************************************************************************)
(* improved_ocr.py: ImprovedCheckOCR                                       *)
(***************************************************************************)
\* len(re.sub(r'[^a-zA-Z0-9]', '', s))
AlnumCount(s) == Cardinality({k \in 1..Len(s) : s[k] \in AlnumSet})

LetterCount(s) == Cardinality({k \in 1..Len(s) : s[k] \in LetterSet})

NumConfigs == 4

\* tesseract page segmentation modes: 6 a uniform block of text, 7 a single
\* text line, 8 a single word
DefaultPsm == 6

RoiPsm == 7

SingleLinePsm == 7

SingleWordPsm == 8

UniformBlockPsm == 6

\* lines 75-83: the configurations in the order tried, each with the
\* whitelist when one is given.  Every one of them is passed to the engine
\* once by the loop of lines 86-93, whatever the earlier ones gave
configs(psm, allow) ==
    [k \in 1..NumConfigs |->
        [oem |-> 3,
         psm |-> <<psm, SingleLinePsm, SingleWordPsm, UniformBlockPsm>>[k],
         whitelist |-> allow]]

\* fault variant: on equal counts the later configuration wins
Better_last_on_tie(result, best_result) ==
    IF AlnumCount(result) >= AlnumCount(best_result)
    THEN result ELSE best_result

\* lines 89-91: best_result after one invocation that returned result
Better(result, best_result) ==
    IF AlnumCount(result) > AlnumCount(best_result)
    THEN result ELSE best_result

\* fault variant: the first engine exception ends the candidate search
ocr_text_abort_on_exception(outs) ==
    LET RECURSIVE best(_)
        best(k) ==
          IF k = 0 THEN <<>>
          ELSE IF \E j \in 1..k : outs[j] = Raise THEN best(k - 1)
          ELSE Better(Strip(outs[k]), best(k - 1))
    IN best(NumConfigs)

\* outs[k] is what the engine gives for the k-th configuration: a text or Raise
ocr_text(outs) ==
    LET RECURSIVE best(_)
        best(k) ==
          IF k = 0 THEN <<>>
          ELSE IF outs[k] = Raise THEN best(k - 1)
          ELSE Better(Strip(outs[k]), best(k - 1))
    IN best(NumConfigs)

parse_amount(text) ==
    LET t == SubClass({"O"}, <<"0">>, SubClass({","}, <<>>, text))
        m == ReSearch(Grp(1, Alt(<<Cat(<<Plus(D), Lit(<<".">>), Digits(2, 2)>>),
                                   Plus(D)>>)), t, FALSE)
    IN IF Len(m) = 0 THEN <<>> ELSE GroupK(t, m, 1)

\* dt is what dateparser.parse(text, fuzzy=True, dayfirst=False) gives:
\* a datetime <<year, month, day>>, or Raise
parse_date(dt, pad) == IF dt = Raise THEN <<>> ELSE strftime(dt, pad)

RoiTextKeep == AlnumSet \cup {" ", "'", ".", ",", "&", "-"}

\* re.sub(r"[^A-Za-z0-9 '.,&-]", '', txt).strip()
CleanRoiText(txt) == Strip(SubNotClass(RoiTextKeep, <<>>, txt))

\* the amount-in-words cleanup
CleanWords(txt) ==
    Strip(CollapseWs(SubNotClass(AlnumSet \cup {" ", "/", "-"}, <<" ">>, txt)))

MinPayeeAlnum == 3

MinPayeeLetters == 3

RoiFieldsExtracted(r) ==
    (IF Truthy(r.payee) /\ LetterCount(r.payee) >= MinPayeeLetters THEN 1 ELSE 0)
    + (IF Truthy(r.date) THEN 1 ELSE 0)
    + (IF Truthy(r.amount) THEN 1 ELSE 0)

\* the dict extract_check_fields returns from its main path
RoiResult(r) ==
    [extraction_success |-> RoiFieldsExtracted(r) >= MinCoreFields,
     payee_name |-> r.payee,
     date |-> r.date,
     amount |-> r.amount,
     memo |-> r.memo,
     raw_text |-> r.raw_text,
     roi_fields_extracted |-> RoiFieldsExtracted(r)]

\* the dicts of its two except branches
RoiFallbackResult(text, err) ==
    [extraction_success |-> FALSE,
     payee_name |-> None,
     date |-> None,
     amount |-> None,
     memo |-> <<>>,
     raw_text |-> text,
     error |-> err]

(***************************************************************************)
(* llm_service.py: CheckProcessorLLM.process_check_text                    *)
(***************************************************************************)
\* reply is what the API call and json.loads give: [error |-> e] when the
\* call raises, the content is not JSON or the JSON is not an object, and
\* otherwise the parsed object as a record of its keys
\* fault variant: a failed call yields placeholder strings instead of nulls
process_check_text_placeholders(text, reply) ==
    IF "error" \in DOMAIN reply
    THEN [payee_name |-> <<"?">>, date |-> <<"?">>, amount |-> <<"?">>,
          memo |-> <<>>, raw_text |-> text, extraction_success |-> FALSE,
          error |-> reply.error]
    ELSE [payee_name |-> Get(reply, "payee_name", None),
          date |-> Get(reply, "date", None),
          amount |-> Get(reply, "amount", None),
          memo |-> Get(reply, "memo", <<>>),
          raw_text |-> text,
          extraction_success |-> TRUE]

process_check_text(text, reply) ==
    IF "error" \in DOMAIN reply
    THEN [payee_name |-> None, date |-> None, amount |-> None, memo |-> <<>>,
          raw_text |-> text, extraction_success |-> FALSE,
          error |-> reply.error]
    ELSE [payee_name |-> Get(reply, "payee_name", None),
          date |-> Get(reply, "date", None),
          amount |-> Get(reply, "amount", None),
          memo |-> Get(reply, "memo", <<>>),
          raw_text |-> text,
          extraction_success |-> TRUE]

(***************************************************************************)
(* main.py: the responses of the /ocr handler                              *)
(***************************************************************************)
NoResponse == [pending |-> TRUE]

\* structured_data built from the ROI result (main.py 171-182, 224-235, 249-260)
RoiStructured(roi) ==
    [payee_name |-> roi.payee_name,
     date |-> roi.date,
     amount |-> roi.amount,
     memo |-> roi.memo,
     routing_number |-> Get(roi, "routing_number", <<>>),
     account_number |-> Get(roi, "account_number", <<>>),
     check_number |-> Get(roi, "check_number", <<>>),
     raw_text |-> roi.raw_text,
     extraction_success |-> TRUE,
     method |-> "improved_ocr_only"]

\* fault variant: the adopted result keeps the ROI payee
RespLlm_roi_payee(roi, llm) ==
    [raw_text |-> roi.raw_text,
     structured_data |->
        [payee_name |-> roi.payee_name,
         date |-> Get(llm, "date", None),
         amount |-> Get(llm, "amount", None),
         memo |-> Get(llm, "memo", <<>>),
         routing_number |-> Get(roi, "routing_number", <<>>),
         account_number |-> Get(roi, "account_number", <<>>),
         check_number |-> Get(roi, "check_number", <<>>),
         raw_text |-> roi.raw_text,
         extraction_success |-> TRUE,
         method |-> "improved_ocr + llm"],
     success |-> TRUE,
     debug_info |-> [improved_ocr_success |-> TRUE, llm_success |-> TRUE,
                     llm_available |-> TRUE,
                     method_used |-> "improved_ocr + llm_validation"]]

RespLlm(roi, llm) ==
    [raw_text |-> roi.raw_text,
     structured_data |->
        [payee_name |-> Get(llm, "payee_name", None),
         date |-> Get(llm, "date", None),
         amount |-> Get(llm, "amount", None),
         memo |-> Get(llm, "memo", <<>>),
         routing_number |-> Get(roi, "routing_number", <<>>),
         account_number |-> Get(roi, "account_number", <<>>),
         check_number |-> Get(roi, "check_number", <<>>),
         raw_text |-> roi.raw_text,
         extraction_success |-> TRUE,
         method |-> "improved_ocr + llm"],
     success |-> TRUE,
     debug_info |-> [improved_ocr_success |-> TRUE, llm_success |-> TRUE,
                     llm_available |-> TRUE,
                     method_used |-> "improved_ocr + llm_validation"]]

RespRegexAfterLlm(rx) ==
    [raw_text |-> rx.raw_text,
     structured_data |-> rx,
     success |-> TRUE,
     debug_info |-> [improved_ocr_success |-> TRUE, llm_success |-> TRUE,
                     regex_success |-> TRUE, llm_available |-> TRUE,
                     method_used |-> "improved_ocr + regex"]]

\* fault variant: the ROI payee is dropped when the regex layer fails
RespRoiAfterLlm_no_payee(roi) ==
    [raw_text |-> roi.raw_text,
     structured_data |-> [RoiStructured(roi) EXCEPT !.payee_name = None],
     success |-> TRUE,
     debug_info |-> [improved_ocr_success |-> TRUE, llm_success |-> TRUE,
                     llm_available |-> TRUE,
                     method_used |-> "improved_ocr_only"]]

RespRoiAfterLlm(roi) ==
    [raw_text |-> roi.raw_text,
     structured_data |-> RoiStructured(roi),
     success |-> TRUE,
     debug_info |-> [improved_ocr_success |-> TRUE, llm_success |-> TRUE,
                     llm_available |-> TRUE,
                     method_used |-> "improved_ocr_only"]]

RespRoiNoLlm(roi) ==
    [raw_text |-> roi.raw_text,
     structured_data |-> RoiStructured(roi),
     success |-> TRUE,
     debug_info |-> [improved_ocr_success |-> TRUE, llm_success |-> FALSE,
                     llm_available |-> FALSE,
                     method_used |-> "improved_ocr_only"]]

RespRegexRoiFailed(rx, avail) ==
    [raw_text |-> rx.raw_text,
     structured_data |-> rx,
     success |-> TRUE,
     debug_info |-> [improved_ocr_success |-> FALSE, regex_success |-> TRUE,
                     llm_available |-> avail,
                     method_used |-> "regex_extraction"]]

RespSimpleRegex(text, rx, avail) ==
    [raw_text |-> text,
     structured_data |-> rx,
     success |-> TRUE,
     debug_info |-> [improved_ocr_success |-> FALSE, regex_success |-> TRUE,
                     llm_available |-> avail,
                     method_used |-> "simple_ocr + regex"]]

\* fault variant: the raw text is reported as the payee
RespRawOnly_text_as_payee(text, avail) ==
    [raw_text |-> text,
     structured_data |->
        [payee_name |-> text, date |-> None, amount |-> None, memo |-> <<>>,
         routing_number |-> <<>>, account_number |-> <<>>,
         check_number |-> <<>>, raw_text |-> text,
         extraction_success |-> FALSE, method |-> "raw_ocr_only"],
     success |-> TRUE,
     debug_info |-> [improved_ocr_success |-> FALSE, regex_success |-> FALSE,
                     llm_available |-> avail,
                     method_used |-> "raw_ocr_only"]]

RespRawOnly(text, avail) ==
    [raw_text |-> text,
     structured_data |->
        [payee_name |-> None, date |-> None, amount |-> None, memo |-> <<>>,
         routing_number |-> <<>>, account_number |-> <<>>,
         check_number |-> <<>>, raw_text |-> text,
         extraction_success |-> FALSE, method |-> "raw_ocr_only"],
     success |-> TRUE,
     debug_info |-> [improved_ocr_success |-> FALSE, regex_success |-> FALSE,
                     llm_available |-> avail,
                     method_used |-> "raw_ocr_only"]]

\* fault variant: the outermost handler re-raises
OuterExcept_reraise(e, avail) ==
    [escaped |-> TRUE, response |-> NoResponse]

\* the handler's outermost except clause (main.py 348-362): e is str(e)
OuterExcept(e, avail) ==
    [escaped |-> FALSE,
     response |->
        [raw_text |-> <<>>,
         structured_data |-> NullData,
         success |-> FALSE,
         error |-> "All OCR methods failed: " \o e,
         debug_info |-> [improved_ocr_success |-> FALSE,
                         regex_success |-> FALSE, llm_available |-> avail,
                         complete_failure |-> TRUE, final_error |-> e]]]

(***************************************************************************)
(* What the environment can supply to one request                          *)
(***************************************************************************)
\* a colour image, a single-channel image (decodes, but cv2.cvtColor with
\* COLOR_BGR2GRAY rejects it), or a payload that does not decode
PayloadKinds == {"color", "gray", "malformed"}

NumRoiTexts == 2

NumFullTexts == 4

Min(a, b) == IF a < b THEN a ELSE b

FirstN(seq, n) == {seq[k] : k \in 1..Min(n, Len(seq))}

DateCands == <<<<>>, <<"0", "9", "-", "2", "5", "-", "2", "0", "1", "2">>, <<"S", "e", "p", " ", "2", "5">>>>

PayeeCands == <<<<"\"", "R", "o", "y", " ", "A", "n", "g", "TM">>, <<"J", "o">>, <<>>>>

AmountCands == <<<<>>, <<"$", "1", "5", "O">>, <<"$", "1", "2", "3", ",", "4", "5", "6", ".", "0", "0">>>>

WordsCands == <<<<>>, <<"O", "n", "e", "*", "*", " ", "D", "o", "l", "l", "a", "r">>>>

MemoCands == <<<<>>, <<"R", "e", "n", "t", "!">>>>

FullTextSeq == <<<<>>,
                 <<"0", "9", "-", "2", "5", "-", "2", "0", "1", "2", "\n", "\"", "R", "o", "y", " ", "A", "n", "g", "\"", " ", "$", "1", "2", "3", ",", "4", "5", "6", ".", "0", "0", "\n", "D", "o", "n", "a", "t", "i", "o", "n", " ", "f", "o", "r", " ", "E", "d", "u", "c", "a", "t", "i", "o", "n">>,
                 <<"0", "1", "-", "0", "2", "-", "0", "9", "9", "9", " ", "|", "1", "2", "3", "4", "5", "6", "7", "8", "9", "|", " ", "1", "0", "0", "1">>,
                 <<"P", "a", "y", " ", "t", "o", " ", "t", "h", "e", " ", "o", "r", "d", "e", "r", " ", "o", "f", " ", "J", "o", "h", "n", " ", "S", "m", "i", "t", "h", " ", "$", "1", "5", "0">>,
                 <<"A", "B", "C", "D", "E", "F">>,
                 <<"1", "2", "/", "1", "5", "/", "2", "0", "2", "3", " ", "1", "2", "3", "4", ".", "5", "6", " ", "d", "o", "l", "l", "a", "r", "s">>>>

FullTexts == FirstN(FullTextSeq, NumFullTexts)

\* the engine's output for each of the configurations of one ocr_text call
EngineOuts(cands) ==
    [1..NumConfigs -> FirstN(cands, NumRoiTexts) \cup {Raise}]

\* what the engine gives for a crop: crop_rel returns a zero-area region
\* when the truncated bounds of the ROI coincide (an image with too few rows
\* or columns); the engine then raises or reads nothing
CropOuts(empty, cands) ==
    IF empty THEN [1..NumConfigs -> {Raise, <<>>}] ELSE EngineOuts(cands)

\* one ocr_text call of the ROI stage: the field, the image the crop was
\* taken from ("original" is clean_for_ocr(gray_original), "deskewed" is
\* clean_for_ocr(gray_deskewed)), whether the crop was empty, and the text
Pass(field, image, empty, text) ==
    [field |-> field, image |-> image, empty |-> empty, text |-> text]

SampleDates == {<<2012, 9, 25>>, <<2023, 12, 15>>}

HasDigit(s) == \E k \in 1..Len(s) : s[k] \in DigitSet

\* dateutil is a library outside the repository: on text without a digit it
\* finds no date; otherwise its verdict is the environment's
DateutilOutcomes(text) ==
    IF HasDigit(text) THEN SampleDates \cup {Raise} ELSE {Raise}

LlmReplies ==
    {[error |-> "api_error"], [error |-> "bad_json"]} \cup
    [payee_name : {None, <<"R", "o", "y", " ", "A", "n", "g">>},
     date : {None, <<"0", "9", "/", "2", "5", "/", "2", "0", "1", "2">>},
     amount : {None, <<>>, <<"1", ",", "2", "5", "0", ".", "5">>},
     memo : {None, <<"R", "e", "n", "t">>}]

\* extract_check_info tabulated over the texts the engine can return
RegexTable ==
    [pad \in BOOLEAN, k \in 1..Len(FullTextSeq) |->
        extract_check_info(FullTextSeq[k], pad)]

RegexLayer(text, pad) ==
    RegexTable[pad, CHOOSE k \in 1..Len(FullTextSeq) : FullTextSeq[k] = text]


(***************************************************************************)
(* The request as a state machine: pc is the handler's position            *)
(***************************************************************************)
Init ==
    /\ llm_available \in BOOLEAN
    /\ padYear \in BOOLEAN
    /\ pc = "idle"
    /\ payload = "none"
    /\ results = NullData
    /\ improved_results = NullData
    /\ llm_results = NullData
    /\ regex_results = NullData
    /\ simple_ocr_text = None
    /\ response = NoResponse
    /\ escaped = FALSE
    /\ ran = <<>>
    /\ call = NullData
    /\ passes = <<>>

\* a POST /ocr arrives
Request ==
    /\ pc \in {"idle", "done"}
    /\ \E p \in PayloadKinds : payload' = p
    /\ pc' = "roi_decode"
    /\ results' = NullData
    /\ improved_results' = NullData
    /\ llm_results' = NullData
    /\ regex_results' = NullData
    /\ simple_ocr_text' = None
    /\ response' = NoResponse
    /\ escaped' = FALSE
    /\ ran' = <<>>
    /\ passes' = <<>>
    /\ UNCHANGED <<call, llm_available, padYear>>

Orchestrator == <<llm_results, regex_results, simple_ocr_text, response, escaped>>

\* extract_check_fields, lines 113-131: decode, upscale, grayscale, preprocess
RoiDecode ==
    /\ pc = "roi_decode"
    /\ IF payload = "color"
       THEN pc' = "roi_date" /\ results' = NullData
       ELSE pc' = "roi_except" /\ results' = [exc |-> payload]
    /\ ran' = Append(ran, "roi")
    /\ UNCHANGED <<call, passes, llm_available, padYear, payload, improved_results,
                   Orchestrator>>

\* fault variant: an empty date crop makes the stage leave its try block
RoiDate_abandons_on_empty_crop ==
    /\ pc = "roi_date"
    /\ \E empty \in BOOLEAN : \E outs \in CropOuts(empty, DateCands) :
         LET date_txt == ocr_text(outs)
         IN IF empty
            THEN /\ results' = [exc |-> "empty crop"]
                 /\ pc' = "roi_except"
                 /\ passes' = Append(passes, Pass("date", "original", empty,
                                                  date_txt))
            ELSE /\ \E dt \in DateutilOutcomes(date_txt) :
                      results' = [raw_date |-> date_txt,
                                  date |-> parse_date(dt, padYear)]
                 /\ pc' = "roi_payee"
                 /\ passes' = Append(passes, Pass("date", "original", empty,
                                                  date_txt))
    /\ UNCHANGED <<call, llm_available, padYear, payload, improved_results,
                   Orchestrator, ran>>

RoiDate ==
    /\ pc = "roi_date"
    /\ \E empty \in BOOLEAN : \E outs \in CropOuts(empty, DateCands) :
         LET date_txt == ocr_text(outs)
         IN /\ \E dt \in DateutilOutcomes(date_txt) :
                 results' = [raw_date |-> date_txt,
                             date |-> parse_date(dt, padYear)]
            /\ passes' = Append(passes, Pass("date", "original", empty, date_txt))
    /\ pc' = "roi_payee"
    /\ UNCHANGED <<call, llm_available, padYear, payload, improved_results,
                   Orchestrator, ran>>

\* fault variant: the second payee pass runs whatever the first one gave
RoiPayee_always_second_pass ==
    /\ pc = "roi_payee"
    /\ \E empty \in BOOLEAN : \E outs \in CropOuts(empty, PayeeCands) :
         \E outs2 \in CropOuts(empty, PayeeCands) :
            /\ results' = [raw_date |-> results.raw_date,
                           date |-> results.date,
                           payee |-> CleanRoiText(ocr_text(outs2))]
            /\ passes' = passes \o
                  <<Pass("payee", "original", empty, ocr_text(outs)),
                    Pass("payee", "deskewed", empty, ocr_text(outs2))>>
    /\ pc' = "roi_amount"
    /\ UNCHANGED <<call, llm_available, padYear, payload, improved_results,
                   Orchestrator, ran>>

\* fault variant: of the two passes the one with more alphanumerics is kept
RoiPayee_keeps_better_pass ==
    /\ pc = "roi_payee"
    /\ \E empty \in BOOLEAN : \E outs \in CropOuts(empty, PayeeCands) :
         LET first == ocr_text(outs)
         IN IF AlnumCount(first) < MinPayeeAlnum
            THEN \E outs2 \in CropOuts(empty, PayeeCands) :
                   /\ results' = [raw_date |-> results.raw_date,
                                  date |-> results.date,
                                  payee |-> CleanRoiText(
                                     IF AlnumCount(ocr_text(outs2))
                                           >= AlnumCount(first)
                                     THEN ocr_text(outs2) ELSE first)]
                   /\ passes' = passes \o
                         <<Pass("payee", "original", empty, first),
                           Pass("payee", "deskewed", empty, ocr_text(outs2))>>
            ELSE /\ results' = [raw_date |-> results.raw_date,
                                date |-> results.date,
                                payee |-> CleanRoiText(first)]
                 /\ passes' = Append(passes,
                                     Pass("payee", "original", empty, first))
    /\ pc' = "roi_amount"
    /\ UNCHANGED <<call, llm_available, padYear, payload, improved_results,
                   Orchestrator, ran>>

RoiPayee ==
    /\ pc = "roi_payee"
    /\ \E empty \in BOOLEAN : \E outs \in CropOuts(empty, PayeeCands) :
         LET first == ocr_text(outs)
         IN IF AlnumCount(first) < MinPayeeAlnum
            THEN \E outs2 \in CropOuts(empty, PayeeCands) :
                   /\ results' = [raw_date |-> results.raw_date,
                                  date |-> results.date,
                                  payee |-> CleanRoiText(ocr_text(outs2))]
                   /\ passes' = passes \o
                         <<Pass("payee", "original", empty, first),
                           Pass("payee", "deskewed", empty, ocr_text(outs2))>>
            ELSE /\ results' = [raw_date |-> results.raw_date,
                                date |-> results.date,
                                payee |-> CleanRoiText(first)]
                 /\ passes' = Append(passes,
                                     Pass("payee", "original", empty, first))
    /\ pc' = "roi_amount"
    /\ UNCHANGED <<call, llm_available, padYear, payload, improved_results,
                   Orchestrator, ran>>

RoiAmount ==
    /\ pc = "roi_amount"
    /\ \E empty \in BOOLEAN : \E outs \in CropOuts(empty, AmountCands) :
         LET amt_num_txt == ocr_text(outs)
         IN /\ results' = [raw_date |-> results.raw_date, date |-> results.date,
                           payee |-> results.payee,
                           raw_amount_numeric |-> amt_num_txt,
                           amount |-> parse_amount(amt_num_txt)]
            /\ passes' = Append(passes, Pass("amount_numeric", "original",
                                             empty, amt_num_txt))
    /\ pc' = "roi_words"
    /\ UNCHANGED <<call, llm_available, padYear, payload, improved_results,
                   Orchestrator, ran>>

RoiWords ==
    /\ pc = "roi_words"
    /\ \E empty \in BOOLEAN : \E outs \in CropOuts(empty, WordsCands) :
         /\ results' = [raw_date |-> results.raw_date, date |-> results.date,
                        payee |-> results.payee,
                        raw_amount_numeric |-> results.raw_amount_numeric,
                        amount |-> results.amount,
                        amount_words |-> CleanWords(ocr_text(outs))]
         /\ passes' = Append(passes, Pass("amount_words", "original", empty,
                                          ocr_text(outs)))
    /\ pc' = "roi_memo"
    /\ UNCHANGED <<call, llm_available, padYear, payload, improved_results,
                   Orchestrator, ran>>

RoiMemo ==
    /\ pc = "roi_memo"
    /\ \E empty \in BOOLEAN : \E outs \in CropOuts(empty, MemoCands) :
         /\ results' = [raw_date |-> results.raw_date, date |-> results.date,
                        payee |-> results.payee,
                        raw_amount_numeric |-> results.raw_amount_numeric,
                        amount |-> results.amount,
                        amount_words |-> results.amount_words,
                        memo |-> CleanRoiText(ocr_text(outs))]
         /\ passes' = Append(passes, Pass("memo", "original", empty,
                                          ocr_text(outs)))
    /\ pc' = "roi_full"
    /\ UNCHANGED <<call, llm_available, padYear, payload, improved_results,
                   Orchestrator, ran>>

\* lines 182-207: the full-image pass and the success test; an engine
\* exception here leaves the try block
RoiFull ==
    /\ pc = "roi_full"
    /\ \E out \in FullTexts \cup {Raise} :
         IF out = Raise
         THEN /\ pc' = "roi_except"
              /\ results' = [exc |-> "tesseract"]
              /\ UNCHANGED improved_results
         ELSE /\ pc' = "roi_done"
              /\ results' = NullData
              /\ improved_results' =
                    RoiResult([payee |-> results.payee, date |-> results.date,
                               amount |-> results.amount, memo |-> results.memo,
                               raw_text |-> out])
    /\ passes' = <<>>
    /\ UNCHANGED <<call, llm_available, padYear, payload, Orchestrator, ran>>

\* lines 209-234: the except branch decodes again and runs one plain pass
RoiExcept ==
    /\ pc = "roi_except"
    /\ IF payload # "color"
       THEN improved_results' =
               RoiFallbackResult(<<>>, "OCR completely failed: " \o payload)
       ELSE \E out \in FullTexts \cup {Raise} :
               improved_results' =
                  IF out = Raise
                  THEN RoiFallbackResult(<<>>, "OCR completely failed: tesseract")
                  ELSE RoiFallbackResult(out,
                          "Advanced OCR failed, using fallback: " \o results.exc)
    /\ pc' = "roi_done"
    /\ results' = NullData
    /\ passes' = <<>>
    /\ UNCHANGED <<call, llm_available, padYear, payload, Orchestrator, ran>>

RoiStage == <<results, improved_results, passes>>

\* fault variant: the call is made whether or not the service was constructed
LlmValidate_ignoring_availability ==
    /\ pc = "roi_done"
    /\ improved_results.extraction_success
    /\ \E reply \in LlmReplies :
         llm_results' = process_check_text(improved_results.raw_text, reply)
    /\ pc' = "llm_done"
    /\ ran' = Append(ran, "llm")
    /\ UNCHANGED <<call, llm_available, padYear, payload, RoiStage, regex_results,
                   simple_ocr_text, response, escaped>>

\* main.py 104-107: the LLM is called when ROI extraction succeeded and the
\* service was constructed at start
LlmValidate ==
    /\ pc = "roi_done"
    /\ improved_results.extraction_success
    /\ llm_available
    /\ \E reply \in LlmReplies :
         llm_results' = process_check_text(improved_results.raw_text, reply)
    /\ pc' = "llm_done"
    /\ ran' = Append(ran, "llm")
    /\ UNCHANGED <<call, llm_available, padYear, payload, RoiStage, regex_results,
                   simple_ocr_text, response, escaped>>

\* fault variant: a tie of the field counts adopts the LLM result too
AdoptLlm_on_tie ==
    /\ pc = "llm_done"
    /\ TruthyCount(llm_results) >= TruthyCount(improved_results)
    /\ response' = RespLlm(improved_results, llm_results)
    /\ pc' = "done"
    /\ UNCHANGED <<call, llm_available, padYear, payload, RoiStage, llm_results,
                   regex_results, simple_ocr_text, escaped, ran>>

\* main.py 112-141
AdoptLlm ==
    /\ pc = "llm_done"
    /\ TruthyCount(llm_results) > TruthyCount(improved_results)
    /\ response' = RespLlm(improved_results, llm_results)
    /\ pc' = "done"
    /\ UNCHANGED <<call, llm_available, padYear, payload, RoiStage, llm_results,
                   regex_results, simple_ocr_text, escaped, ran>>

\* main.py 142-190
RegexAfterLlm ==
    /\ pc = "llm_done"
    /\ ~(TruthyCount(llm_results) > TruthyCount(improved_results))
    /\ regex_results' = RegexLayer(improved_results.raw_text, padYear)
    /\ response' = IF regex_results'.extraction_success
                   THEN RespRegexAfterLlm(regex_results')
                   ELSE RespRoiAfterLlm(improved_results)
    /\ pc' = "done"
    /\ ran' = Append(ran, "regex")
    /\ UNCHANGED <<call, llm_available, padYear, payload, RoiStage, llm_results,
                   simple_ocr_text, escaped>>

\* fault variant: without the LLM a successful ROI result still goes on to
\* the plain pass
RoiOnly_falls_to_plain_pass ==
    /\ pc = "roi_done"
    /\ improved_results.extraction_success
    /\ ~llm_available
    /\ pc' = "simple_ocr"
    /\ UNCHANGED <<call, llm_available, padYear, payload, RoiStage, llm_results,
                   regex_results, simple_ocr_text, response, escaped, ran>>

\* main.py 245-268
RoiOnly ==
    /\ pc = "roi_done"
    /\ improved_results.extraction_success
    /\ ~llm_available
    /\ response' = RespRoiNoLlm(improved_results)
    /\ pc' = "done"
    /\ UNCHANGED <<call, llm_available, padYear, payload, RoiStage, llm_results,
                   regex_results, simple_ocr_text, escaped, ran>>

\* fault variant: a failed ROI stage goes straight to the plain pass
RegexOnRoiText_skipped ==
    /\ pc = "roi_done"
    /\ ~improved_results.extraction_success
    /\ pc' = "simple_ocr"
    /\ UNCHANGED <<call, llm_available, padYear, payload, RoiStage, llm_results,
                   regex_results, simple_ocr_text, response, escaped, ran>>

\* main.py 269-296
RegexOnRoiText ==
    /\ pc = "roi_done"
    /\ ~improved_results.extraction_success
    /\ regex_results' = RegexLayer(improved_results.raw_text, padYear)
    /\ IF regex_results'.extraction_success
       THEN /\ response' = RespRegexRoiFailed(regex_results', llm_available)
            /\ pc' = "done"
       ELSE /\ response' = response
            /\ pc' = "simple_ocr"
    /\ ran' = Append(ran, "regex")
    /\ UNCHANGED <<call, llm_available, padYear, payload, RoiStage, llm_results,
                   simple_ocr_text, escaped>>

\* main.py 298-346, and 348-362 when the decode or the engine raises
SimpleOcr ==
    /\ pc = "simple_ocr"
    /\ \E out \in FullTexts \cup {Raise} :
         IF payload = "malformed" \/ out = Raise
         THEN LET h == OuterExcept(IF payload = "malformed" THEN "decode"
                                   ELSE "tesseract", llm_available)
              IN /\ response' = h.response
                 /\ escaped' = h.escaped
                 /\ UNCHANGED <<simple_ocr_text, regex_results>>
                 /\ ran' = Append(ran, "simple_ocr")
         ELSE /\ simple_ocr_text' = out
              /\ regex_results' = RegexLayer(out, padYear)
              /\ response' = IF regex_results'.extraction_success
                             THEN RespSimpleRegex(out, regex_results',
                                                  llm_available)
                             ELSE RespRawOnly(out, llm_available)
              /\ escaped' = escaped
              /\ ran' = ran \o <<"simple_ocr", "regex">>
    /\ pc' = "done"
    /\ UNCHANGED <<call, llm_available, padYear, payload, RoiStage, llm_results>>

Next ==
    \/ Request
    \/ RoiDecode
    \/ RoiDate
    \/ RoiPayee
    \/ RoiAmount
    \/ RoiWords
    \/ RoiMemo
    \/ RoiFull
    \/ RoiExcept
    \/ LlmValidate
    \/ AdoptLlm
    \/ RegexAfterLlm
    \/ RoiOnly
    \/ RegexOnRoiText
    \/ SimpleOcr

Spec == Init /\ [][Next]_vars

(***************************************************************************)
(* Direct calls of the extraction functions, as test_regex.py makes them:  *)
(* one call per run, on a text the caller chooses.  `call` records the     *)
(* function, its argument and what it returned.                            *)
(***************************************************************************)
AmountTexts == {
    <<"$", " ", "1", "2", "3", ",", "4", "5", "6", ".", "0", "0">>,
    <<"$", "1", ",", "2", "5", "0", ".", "0", "0">>,
    <<"$", "1", "5", "0">>,
    <<"1", "2", "3", "4", ".", "5", "6", " ", "d", "o", "l", "l", "a", "r", "s">>,
    <<"1", "2", ".", "5", "0">>,
    <<"R", "o", "y", " ", "A", "n", "g">>,
    <<"1", "2", " ", "a", "p", "p", "l", "e", "s">>,
    <<"A", "B", "C", "D", "E", "F">>,
    <<>> }

\* extract_check_info(text)['amount']: the amount patterns on the cleaned text
CallExtractAmount ==
    /\ call = NullData
    /\ \E t \in AmountTexts :
         call' = [fn |-> "_extract_amount", text |-> t,
                  ret |-> _extract_amount(_clean_text(t))]
    /\ UNCHANGED <<llm_available, padYear, pc, payload, results, passes,
                   improved_results, ran, Orchestrator>>

\* dates as a check carries them, MM<sep>DD<sep>YYYY, the impossible ones
\* (month 00 and 13, day 00, February 30) included, and texts without a date
UnitMonths == {<<"0", "0">>, <<"0", "2">>, <<"0", "9">>, <<"1", "2">>, <<"1", "3">>}

UnitDays == {<<"0", "0">>, <<"1", "5">>, <<"2", "5">>, <<"2", "9">>, <<"3", "0">>, <<"3", "1">>}

UnitYears == {<<"0", "9", "9", "9">>, <<"2", "0", "1", "2">>, <<"2", "0", "2", "3">>, <<"2", "0", "2", "4">>}

DateTexts ==
    { m \o sep \o d \o sep \o y :
        m \in UnitMonths, d \in UnitDays, y \in UnitYears,
        sep \in {<<"-">>, <<"/">>} }
    \cup {<<"A", "B", "C", "D", "E", "F">>, <<"S", "e", "p", " ", "2", "5">>, <<>>}

\* extract_check_info(text)['date']: the date patterns on the cleaned text;
\* padYear is what the platform's strftime does below year 1000
CallExtractDate ==
    /\ call = NullData
    /\ \E t \in DateTexts :
         call' = [fn |-> "_extract_date", text |-> t,
                  ret |-> _extract_date(_clean_text(t), padYear)]
    /\ UNCHANGED <<llm_available, padYear, pc, payload, results, passes,
                   improved_results, ran, Orchestrator>>

\* a two-word name, between the characters OCR puts around a stylised payee
\* line, followed by a currency amount
ArtifactsBefore == {<<>>, <<"\"">>, <<"_", " ", "\"">>, <<"*">>, <<"'">>}

PayeeNames == {<<"R", "o", "y", " ", "A", "n", "g">>, <<"J", "o", "h", "n", " ", "S", "m", "i", "t", "h">>}

ArtifactsAfter == {<<>>, <<"TM">>, <<"\"">>, <<"*">>, <<"_">>}

CurrencyAmounts == {<<" ", "$", " ", "1", "2", "3", ",", "4", "5", "6", ".", "0", "0">>, <<" ", "$", "1", "5", "0">>}

\* the canonical labels, with and without a colon, and the names after them
PayeeLabels == {<<"P", "a", "y", " ", "t", "o", " ", "t", "h", "e", " ", "o", "r", "d", "e", "r", " ", "o", "f", " ">>, <<"P", "a", "y", " ", "t", "o", " ", "t", "h", "e", " ", "o", "r", "d", "e", "r", " ", "o", "f", ":", " ">>,
                <<"P", "a", "y", "a", "b", "l", "e", " ", "t", "o", " ">>}

LabelNames == {<<"J", "o", "h", "n", " ", "S", "m", "i", "t", "h">>, <<"A", "c", "m", "e">>}

PayeeTexts ==
    { b \o n \o a \o m : b \in ArtifactsBefore, n \in PayeeNames,
                          a \in ArtifactsAfter, m \in CurrencyAmounts }
    \cup { l \o n : l \in PayeeLabels, n \in LabelNames }
    \cup {<<"A", "B", "C", "D", "E", "F">>, <<>>}

\* extract_check_info(text)['payee_name']: the payee patterns on the cleaned
\* text
CallExtractPayee ==
    /\ call = NullData
    /\ \E t \in PayeeTexts :
         call' = [fn |-> "_extract_payee", text |-> t,
                  ret |-> _extract_payee(_clean_text(t))]
    /\ UNCHANGED <<llm_available, padYear, pc, payload, results, passes,
                   improved_results, ran, Orchestrator>>

\* MICR-like lines: digit runs of several lengths between the delimiters OCR
\* gives for the MICR symbols
MicrTexts == {<<"|", "1", "2", "3", "4", "5", "6", "7", "8", "9", "|">>, <<"|", "1", "2", "3", "4", "5", "6", "7", "8", "9", "0", "|">>, <<"|", "1", "2", "3", "4", "5", "6", "|">>, <<"|", "1", "2", "|">>,
              <<":", "1", "2", "3", "4", "5", "6", "7", "8", "9", ":", " ", "1", "2", "3", "4", "5", "6", "7", "8", "9", "0", " ", "1", "0", "0", "1">>,
              <<"1", "2", "3", "4", "5", "6", "7", "8", "9", "0", "1", "2", "3", "4", "5", "6", "7", "8", "9">>, <<"x", " ", "1", "2", "3", "4", "5", "6", "7">>, <<"1", "2", "3", "4", "5">>,
              <<"1", "0", "0", "1">>, <<>>}

\* extract_check_info(text)['routing_number']
CallExtractRouting ==
    /\ call = NullData
    /\ \E t \in MicrTexts :
         call' = [fn |-> "_extract_routing_number", text |-> t,
                  ret |-> _extract_routing_number(_clean_text(t))]
    /\ UNCHANGED <<llm_available, padYear, pc, payload, results, passes,
                   improved_results, ran, Orchestrator>>

\* extract_check_info(text)['account_number']
CallExtractAccount ==
    /\ call = NullData
    /\ \E t \in MicrTexts :
         call' = [fn |-> "_extract_account_number", text |-> t,
                  ret |-> _extract_account_number(_clean_text(t))]
    /\ UNCHANGED <<llm_available, padYear, pc, payload, results, passes,
                   improved_results, ran, Orchestrator>>

\* extract_check_info(text)['check_number']
CallExtractCheck ==
    /\ call = NullData
    /\ \E t \in MicrTexts :
         call' = [fn |-> "_extract_check_number", text |-> t,
                  ret |-> _extract_check_number(_clean_text(t))]
    /\ UNCHANGED <<llm_available, padYear, pc, payload, results, passes,
                   improved_results, ran, Orchestrator>>

\* what one engine invocation may give: nothing, punctuation only, texts
\* with equal and with different alphanumeric counts, a text with
\* surrounding whitespace, or an exception
UnitEngineOuts == {<<>>, <<"$">>, <<"A", "B">>, <<"A", "1">>, <<" ", "A", "B", "C", "\n">>, Raise}

\* the psm arguments the callers pass (the default and psm=7) and the
\* whitelists (none, and the one of the amount box)
PsmArgs == {DefaultPsm, RoiPsm}

AllowArgs == {None, <<"$", "0", "1", "2", "3", "4", "5", "6", "7", "8", "9", ".", ",">>}

\* ImprovedCheckOCR.ocr_text(img) where the engine gives outs[k] for the
\* k-th configuration
CallOcrText ==
    /\ call = NullData
    /\ \E outs \in [1..NumConfigs -> UnitEngineOuts],
          psm \in PsmArgs, allow \in AllowArgs :
         call' = [fn |-> "ocr_text", psm |-> psm, allow |-> allow,
                  invoked |-> configs(psm, allow),
                  outs |-> outs, ret |-> ocr_text(outs)]
    /\ UNCHANGED <<llm_available, padYear, pc, payload, results, passes,
                   improved_results, ran, Orchestrator>>

\* relative coordinates are multiples of 1/BoxDen; images have 1..MaxSide
\* rows and columns
BoxDen == 4

MaxSide == 4

\* fault variant: the product is rounded up
int_ceiling(num, den) == {(num + den - 1) \div den}

\* int(f) for the float f computed for num/den >= 0: the fraction is cut
\* off; when num/den is a whole number the float product may lie just
\* below it (int(0.29 * 100) is 28)
int(num, den) ==
    {num \div den} \cup
        (IF num % den = 0 /\ num > 0 THEN {num \div den - 1} ELSE {})

Max(a, b) == IF a >= b THEN a ELSE b

\* the length of a[lo:hi] for a of length n and lo, hi >= 0
SliceLen(lo, hi, n) == Max(0, Min(hi, n) - Min(lo, n))

\* improved_ocr.py 65-71.  img is its shape <<H, W>>; rel_box is
\* <<x, y, w, h>> in units of 1/BoxDen; the result is the set of regions the
\* float arithmetic can give, each with the rows and columns it spans
crop_rel(img, rel_box) ==
    { [rows |-> <<y1, y2>>, cols |-> <<x1, x2>>,
       height |-> SliceLen(y1, y2, img[1]),
       width |-> SliceLen(x1, x2, img[2])] :
        x1 \in int(rel_box[1] * img[2], BoxDen),
        y1 \in int(rel_box[2] * img[1], BoxDen),
        x2 \in int((rel_box[1] + rel_box[3]) * img[2], BoxDen),
        y2 \in int((rel_box[2] + rel_box[4]) * img[1], BoxDen) }

\* x, y, w, h in [0, 1] with x + w <= 1 and y + h <= 1
RelativeBoxes ==
    { b \in (0..BoxDen) \X (0..BoxDen) \X (0..BoxDen) \X (0..BoxDen) :
        b[1] + b[3] <= BoxDen /\ b[2] + b[4] <= BoxDen }

CallCropRel ==
    /\ call = NullData
    /\ \E H \in 1..MaxSide, W \in 1..MaxSide, b \in RelativeBoxes :
         \E region \in crop_rel(<<H, W>>, b) :
            call' = [fn |-> "crop_rel", img |-> <<H, W>>, rel_box |-> b,
                     ret |-> region]
    /\ UNCHANGED <<llm_available, padYear, pc, payload, results, passes,
                   improved_results, ran, Orchestrator>>

\* raw OCR texts: runs of blanks and line breaks, characters the cleaning
\* does not keep (#, =, !), and the characters it keeps
CleanTexts == {<<"a", " ", " ", "b">>, <<"x", "\n", "\n", "y">>, <<"a", " ", "#", " ", "b">>, <<"a", "#", "b">>, <<"4", "=", " ", "t", "e", "e">>,
               <<" ", "R", "e", "n", "t", "!", " ">>, <<"\"", "R", "o", "y", " ", "A", "n", "g", "TM", " ", "$", " ", "1", ",", "5", ".", "0", "/", "'", "-", "&", "*", "|", "_">>, <<"#", "#">>, <<>>}

\* RegexCheckExtractor._clean_text(text)
CallCleanText ==
    /\ call = NullData
    /\ \E t \in CleanTexts :
         call' = [fn |-> "_clean_text", text |-> t, ret |-> _clean_text(t)]
    /\ UNCHANGED <<llm_available, padYear, pc, payload, results, passes,
                   improved_results, ran, Orchestrator>>

UnitNext ==
    \/ CallExtractAmount
    \/ CallExtractDate
    \/ CallExtractPayee
    \/ CallExtractRouting
    \/ CallExtractAccount
    \/ CallExtractCheck
    \/ CallOcrText
    \/ CallCropRel
    \/ CallCleanText

UnitSpec == Init /\ [][UnitNext]_vars

(***************************************************************************)
(* Properties                                                              *)
(***************************************************************************)
Done == pc = "done"

Data == response.structured_data

\* a field that is neither null nor empty
Present(v) == v # None /\ v # <<>>

PresentCount(d) == Cardinality({k \in CoreKeys : Present(d[k])})

RoiSucceeded == improved_results # NullData /\ improved_results.extraction_success

RoiFailed == improved_results # NullData /\ ~improved_results.extraction_success

LlmRan == llm_results # NullData

\* the structured data carries the ROI result's fields
KeepsRoi ==
    /\ Data.payee_name = improved_results.payee_name
    /\ Data.date = improved_results.date
    /\ Data.amount = improved_results.amount
    /\ Data.memo = improved_results.memo
    /\ Data.raw_text = improved_results.raw_text
    /\ response.raw_text = improved_results.raw_text

\* the regex layer ran on the ROI stage's free text and its result was
\* adopted if it reported success, the ROI result kept otherwise
RegexElseRoi ==
    /\ regex_results # NullData
    /\ regex_results.raw_text = improved_results.raw_text
    /\ ran[Len(ran)] = "regex"
    /\ IF regex_results.extraction_success
       THEN Data = regex_results /\ response.raw_text = regex_results.raw_text
       ELSE KeepsRoi

\* C1: no exception escapes the /ocr handler; every finished request has a
\* response; a failure that no lower layer recovers (the payload does not
\* decode, or the plain full-image pass raises) gives success=false, null
\* structured_data and a non-empty error description
C1_NeverEscapes ==
    /\ escaped = FALSE
    /\ Done =>
         /\ response # NoResponse
         /\ {"raw_text", "structured_data", "success", "debug_info"}
               \subseteq DOMAIN response
         /\ (payload = "malformed" \/ ran[Len(ran)] = "simple_ocr")
               => response.success = FALSE
         /\ response.success = FALSE =>
               /\ Data = NullData
               /\ "error" \in DOMAIN response
               /\ response.error # ""

C1_Witness == Done /\ payload = "malformed" /\ response.success = FALSE

\* C2: when ROI extraction succeeded and the LLM result has strictly more
\* present (non-null, non-empty) fields among payee_name, date, amount than
\* the ROI result, the final structured data is the LLM's payee_name, date,
\* amount and memo with the ROI result's routing, account and check numbers
\* and extraction_success = true
C2_LlmAdopted ==
    (Done /\ RoiSucceeded /\ LlmRan
       /\ PresentCount(llm_results) > PresentCount(improved_results))
    => /\ Data.payee_name = llm_results.payee_name
       /\ Data.date = llm_results.date
       /\ Data.amount = llm_results.amount
       /\ Data.memo = llm_results.memo
       /\ Data.routing_number = Get(improved_results, "routing_number", <<>>)
       /\ Data.account_number = Get(improved_results, "account_number", <<>>)
       /\ Data.check_number = Get(improved_results, "check_number", <<>>)
       /\ Data.extraction_success = TRUE
       /\ response.success = TRUE

C2_Witness ==
    /\ Done /\ RoiSucceeded /\ LlmRan
    /\ PresentCount(llm_results) = 3
    /\ PresentCount(improved_results) = 2
    /\ Data.method = "improved_ocr + llm"

\* C3: when ROI extraction succeeded and the LLM result does not have
\* strictly more present core fields, the regex layer runs on the ROI free
\* text; the final result is the regex result if it succeeded, else the ROI
\* result
C3_RegexAfterLlm ==
    (Done /\ RoiSucceeded /\ LlmRan
       /\ ~(PresentCount(llm_results) > PresentCount(improved_results)))
    => RegexElseRoi

C3_Witness ==
    /\ Done /\ RoiSucceeded /\ LlmRan
    /\ "error" \notin DOMAIN llm_results
    /\ PresentCount(llm_results) = PresentCount(improved_results)
    /\ ~regex_results.extraction_success
    /\ Data.method = "improved_ocr_only"

\* C4: when ROI extraction succeeded and the LLM call failed, the request
\* still succeeds: the regex layer runs on the ROI free text, its result is
\* adopted if it succeeded, else the ROI result is kept
C4_LlmErrorDegrades ==
    (Done /\ RoiSucceeded /\ LlmRan /\ "error" \in DOMAIN llm_results)
    => /\ response.success = TRUE
       /\ RegexElseRoi

C4_Witness ==
    /\ Done /\ RoiSucceeded /\ LlmRan
    /\ "error" \in DOMAIN llm_results
    /\ regex_results.extraction_success
    /\ Data = regex_results

\* C5: when ROI extraction succeeded and the LLM is unavailable, the regex
\* layer runs on the ROI free text and its result is adopted if it succeeded
C5_NoLlmGoesToRegex ==
    (Done /\ RoiSucceeded /\ ~llm_available) => RegexElseRoi

\* C6: when ROI extraction failed, the regex layer runs first on the ROI
\* stage's free text and its result is returned if it succeeded; only
\* otherwise one plain full-image pass runs, the regex layer runs on that
\* text, and that result is returned if it succeeded
C6_RoiFailureOrder ==
    (Done /\ RoiFailed)
    => LET first == RegexLayer(improved_results.raw_text, padYear)
       IN /\ Len(ran) >= 2 /\ ran[1] = "roi" /\ ran[2] = "regex"
          /\ first.extraction_success =>
                /\ ran = <<"roi", "regex">>
                /\ simple_ocr_text = None
                /\ regex_results = first
                /\ Data = first
          /\ ~first.extraction_success =>
                /\ Len(ran) >= 3 /\ ran[3] = "simple_ocr"
                /\ simple_ocr_text # None =>
                      /\ ran = <<"roi", "regex", "simple_ocr", "regex">>
                      /\ regex_results = RegexLayer(simple_ocr_text, padYear)
                      /\ regex_results.extraction_success =>
                            (Data = regex_results
                               /\ response.raw_text = simple_ocr_text)

C6_Witness ==
    /\ Done /\ RoiFailed
    /\ ran = <<"roi", "regex", "simple_ocr", "regex">>
    /\ response.success /\ Data.extraction_success
    /\ response.debug_info.method_used = "simple_ocr + regex"

\* C7: when no strategy succeeded and the plain pass raised nothing, the
\* response is the final fallback: raw_text is the plain OCR text, payee_name,
\* date and amount are null, extraction_success is false, and the diagnostic
\* trail is not empty
C7_FinalFallback ==
    (Done /\ RoiFailed /\ simple_ocr_text # None
       /\ ~regex_results.extraction_success)
    => /\ response.raw_text = simple_ocr_text
       /\ Data.raw_text = simple_ocr_text
       /\ Data.payee_name = None
       /\ Data.date = None
       /\ Data.amount = None
       /\ Data.extraction_success = FALSE
       /\ DOMAIN response.debug_info # {}
       /\ response.debug_info.improved_ocr_success = FALSE
       /\ response.debug_info.regex_success = FALSE

C7_Witness ==
    /\ Done /\ simple_ocr_text = <<>>
    /\ improved_results.raw_text = <<>>
    /\ Data.method = "raw_ocr_only"

IsDigits(s) == \A k \in 1..Len(s) : s[k] \in DigitSet

IsIsoDate(d) ==
    /\ Len(d) = 10
    /\ d[5] = "-" /\ d[8] = "-"
    /\ IsDigits(SubSeq(d, 1, 4)) /\ IsDigits(SubSeq(d, 6, 7))
    /\ IsDigits(SubSeq(d, 9, 10))

IsTwoDecimal(a) ==
    /\ Len(a) >= 4
    /\ a[Len(a) - 2] = "."
    /\ IsDigits(SubSeq(a, 1, Len(a) - 3))
    /\ IsDigits(SubSeq(a, Len(a) - 1, Len(a)))

\* C8: in every returned Field Set a present date has the form YYYY-MM-DD
C8_DateIsIso ==
    (Done /\ response.success /\ Present(Data.date)) => IsIsoDate(Data.date)

\* C9: in every returned Field Set a present amount is a string of digits
\* with exactly two fraction digits and no thousands separator
C9_AmountTwoDecimals ==
    (Done /\ response.success /\ Present(Data.amount))
    => IsTwoDecimal(Data.amount)

NonNullCount(d) == Cardinality({k \in CoreKeys : d[k] # None})

\* C10: extract_check_info reports success only if at least two of
\* payee_name, date, amount are non-null, and the flag is decided by those
\* three alone, whatever memo and the MICR fields are
C10_SuccessNeedsTwoCore ==
    regex_results # NullData =>
       (regex_results.extraction_success <=> NonNullCount(regex_results) >= 2)

C10_Witness ==
    /\ regex_results # NullData
    /\ ~regex_results.extraction_success
    /\ NonNullCount(regex_results) = 1
    /\ regex_results.routing_number # <<>>
    /\ regex_results.check_number # <<>>

(***************************************************************************)
(* Properties of the engine invocations inside a request                   *)
(***************************************************************************)
\* C19: an engine exception in any OCR invocation of a request counts as
\* "no text produced".  Whatever the ROI stage's full-image pass gives, the
\* stage ends with the fields it had extracted; whatever the orchestrator's
\* plain pass gives for an image that decodes, the request does not end in
\* a failure response.
C19_EngineFailureIsNoText ==
    [][/\ (pc = "roi_full" /\ pc' # "roi_full")
            => /\ pc' = "roi_done"
               /\ improved_results'.payee_name = results.payee
               /\ improved_results'.date = results.date
               /\ improved_results'.amount = results.amount
       /\ (pc = "simple_ocr" /\ pc' = "done" /\ payload # "malformed")
            => response'.success = TRUE]_vars

(***************************************************************************)
(* Properties of the directly called functions                             *)
(***************************************************************************)
Called(fn, text) == call # NullData /\ call.fn = fn /\ call.text = text

\* C11: for "$ 123,456.00" the regex amount extraction returns the amount
\* with the thousands separators stripped and two fraction digits,
\* "123456.00".
C11_SeparatorsStripped ==
    Called("_extract_amount", <<"$", " ", "1", "2", "3", ",", "4", "5", "6", ".", "0", "0">>)
        => call.ret = <<"1", "2", "3", "4", "5", "6", ".", "0", "0">>

NoAmountPattern(text) ==
    /\ \A k \in 1..Len(patterns_amount) :
          ReSearch(patterns_amount[k], text, FALSE) = Fail
    /\ ReSearch(written_pattern, text, TRUE) = Fail

\* C12: for "1234.56 dollars" the regex amount extraction returns the whole
\* decimal "1234.56"; for a text that matches no numeric and no written
\* amount pattern it returns null.
C12_BareDecimalWhole ==
    /\ Called("_extract_amount", <<"1", "2", "3", "4", ".", "5", "6", " ", "d", "o", "l", "l", "a", "r", "s">>)
          => call.ret = <<"1", "2", "3", "4", ".", "5", "6">>
    /\ (call # NullData /\ call.fn = "_extract_amount"
        /\ NoAmountPattern(_clean_text(call.text)))
          => call.ret = None

\* text is MM<sep>DD<sep>YYYY with one separator, "-" or "/"
WrittenMDY(text) ==
    /\ Len(text) = 10
    /\ text[3] \in {"-", "/"} /\ text[6] = text[3]
    /\ IsDigits(SubSeq(text, 1, 2)) /\ IsDigits(SubSeq(text, 4, 5))
    /\ IsDigits(SubSeq(text, 7, 10))

ValidCalendarDate(y, m, d) ==
    y >= 1 /\ m \in 1..12 /\ d >= 1 /\ d <= DaysInMonth(y, m)

ValidMDY(text) ==
    /\ WrittenMDY(text)
    /\ ValidCalendarDate(ToInt(SubSeq(text, 7, 10)), ToInt(SubSeq(text, 1, 2)),
                         ToInt(SubSeq(text, 4, 5)))

SameDateYMD(text) ==
    SubSeq(text, 7, 10) \o <<"-">> \o SubSeq(text, 1, 2) \o <<"-">>
        \o SubSeq(text, 4, 5)

NoDateShape(text) ==
    \A k \in 1..Len(patterns_date) : ReSearch(patterns_date[k], text, TRUE) = Fail

\* C13: regex date extraction maps every valid calendar date written
\* MM-DD-YYYY or MM/DD/YYYY to the same date as YYYY-MM-DD, and returns null,
\* without raising, for a text with no date shape and for a matched shape
\* that is no calendar date.
C13_DateToIso ==
    (call # NullData /\ call.fn = "_extract_date")
        => /\ call.ret # Raise
           /\ ValidMDY(call.text) => call.ret = SameDateYMD(call.text)
           /\ (NoDateShape(call.text)
               \/ (WrittenMDY(call.text) /\ ~ValidMDY(call.text)))
                 => call.ret = None

\* the same without the years below 1000: holds, so the only dates that are
\* not mapped are those whose year strftime leaves unpadded
DateToIsoFrom1000 ==
    (call # NullData /\ call.fn = "_extract_date"
     /\ (ValidMDY(call.text) => ToInt(SubSeq(call.text, 7, 10)) >= 1000))
        => /\ call.ret # Raise
           /\ ValidMDY(call.text) => call.ret = SameDateYMD(call.text)
           /\ (NoDateShape(call.text)
               \/ (WrittenMDY(call.text) /\ ~ValidMDY(call.text)))
                 => call.ret = None

C15_LabelDecides ==
    \A l \in PayeeLabels, n \in LabelNames :
        Called("_extract_payee", l \o n) => call.ret = n

MicrCall ==
    /\ call # NullData
    /\ call.fn \in {"_extract_routing_number", "_extract_account_number",
                    "_extract_check_number"}

\* the accepted lengths of each MICR field
MicrRange(fn) ==
    IF fn = "_extract_routing_number" THEN 6..9
    ELSE IF fn = "_extract_account_number" THEN 6..15
    ELSE 3..6

\* num stands in text as a whole digit run: no digit before it or after it
WholeDigitRun(num, text) ==
    \E i \in 1..(Len(text) - Len(num) + 1) :
        /\ SubSeq(text, i, i + Len(num) - 1) = num
        /\ i = 1 \/ text[i - 1] \notin DigitSet
        /\ i + Len(num) - 1 = Len(text) \/ text[i + Len(num)] \notin DigitSet

\* a returned MICR value is made of digits and its length is in the range
\* of its field
MicrLengthInRange ==
    (MicrCall /\ call.ret # <<>>)
        => IsDigits(call.ret) /\ Len(call.ret) \in MicrRange(call.fn)

\* C16: a returned routing number has 6 to 9 digits, an account number 6 to
\* 15, a check number 3 to 6, and no returned value is a proper part of a
\* longer digit run of the text.
C16_MicrWholeRuns ==
    (MicrCall /\ call.ret # <<>>)
        => /\ IsDigits(call.ret) /\ Len(call.ret) \in MicrRange(call.fn)
           /\ WholeDigitRun(call.ret, call.text)

OcrCall == call # NullData /\ call.fn = "ocr_text"

\* the text the k-th configuration produced; an invocation that raised
\* produced none
Produced(outs, k) == IF outs[k] = Raise THEN <<>> ELSE Strip(outs[k])

Score(outs, k) == AlnumCount(Produced(outs, k))

\* the first configuration whose text has the highest count
FirstBest(outs) ==
    CHOOSE k \in 1..NumConfigs :
        /\ \A j \in 1..NumConfigs : Score(outs, j) <= Score(outs, k)
        /\ \A j \in 1..(k - 1) : Score(outs, j) < Score(outs, k)

NoneRaised(outs) == \A k \in 1..NumConfigs : outs[k] # Raise

BestPositiveElseEmpty(outs) ==
    IF Score(outs, FirstBest(outs)) > 0
    THEN Produced(outs, FirstBest(outs)) ELSE <<>>

\* C17 as stated: ocr_text returns, among the texts its configurations
\* produced, one with the highest alphanumeric count, and on a tie the text
\* of the configuration tried first.
C17_FirstBestText ==
    (OcrCall /\ NoneRaised(call.outs))
        => call.ret = Produced(call.outs, FirstBest(call.outs))

\* C17 amended: ocr_text returns the text of the first configuration with
\* the highest alphanumeric count when that count is positive, and the empty
\* string when no text has an alphanumeric character.
C17_FirstBestPositive ==
    (OcrCall /\ NoneRaised(call.outs))
        => call.ret = BestPositiveElseEmpty(call.outs)

\* a tie at a positive count between two different texts, after a text of
\* count zero
C17_Witness ==
    /\ OcrCall
    /\ call.outs = <<<<"$">>, <<"A", "1">>, <<"A", "B">>, <<"A", "B">>>>
    /\ call.ret = <<"A", "1">>

\* C18: an engine exception in one invocation counts as empty text: the
\* other configurations are still tried, ocr_text does not raise, and it
\* returns the empty string when every invocation fails.
C18_ExceptionIsEmptyText ==
    (OcrCall /\ ~NoneRaised(call.outs))
        => /\ call.ret # Raise
           /\ call.ret = BestPositiveElseEmpty(call.outs)
           /\ (\A k \in 1..NumConfigs : call.outs[k] = Raise)
                 => call.ret = <<>>

\* the first invocation raises and a later one gives the text returned
C18_Witness ==
    /\ OcrCall
    /\ call.outs[1] = Raise /\ call.outs[2] = Raise
    /\ call.outs[3] = <<"A", "B">>
    /\ call.ret = <<"A", "B">>

\* every invocation raises
C18_WitnessAllFail ==
    /\ OcrCall
    /\ \A k \in 1..NumConfigs : call.outs[k] = Raise
    /\ call.ret = <<>>

CropCall == call # NullData /\ call.fn = "crop_rel"

\* n is within one pixel of num/BoxDen
WithinOnePixel(n, num) ==
    (n - 1) * BoxDen <= num /\ num <= (n + 1) * BoxDen

\* n is num/BoxDen with the fraction cut off, as far as floats can tell
Truncated(n, num) == n * BoxDen <= num /\ num <= (n + 1) * BoxDen

\* C20: for a RelativeBox with x, y, w, h in [0,1], x+w <= 1, y+h <= 1 and
\* an image of W columns and H rows, crop_rel returns a region whose width
\* and height are within one pixel of w*W and h*H, spanning the truncated
\* bounds int(x*W), int(y*H), int((x+w)*W), int((y+h)*H); every call
\* returns a region, none raises.
C20_CropWithinOnePixel ==
    CropCall =>
        LET H == call.img[1]
            W == call.img[2]
            b == call.rel_box
            r == call.ret
        IN /\ DOMAIN r = {"rows", "cols", "height", "width"}
           /\ WithinOnePixel(r.width, b[3] * W)
           /\ WithinOnePixel(r.height, b[4] * H)
           /\ Truncated(r.cols[1], b[1] * W)
           /\ Truncated(r.rows[1], b[2] * H)
           /\ Truncated(r.cols[2], (b[1] + b[3]) * W)
           /\ Truncated(r.rows[2], (b[2] + b[4]) * H)
           /\ r.width = Max(0, r.cols[2] - r.cols[1])
           /\ r.height = Max(0, r.rows[2] - r.rows[1])

\* x = 1/4 and w = 1/2 on three columns: the bounds 0.75 and 2.25 are cut to
\* 0 and 2, so the region has two columns where w*W is 1.5
C20_Witness ==
    /\ CropCall
    /\ call.img = <<3, 3>>
    /\ call.rel_box = <<1, 1, 2, 2>>
    /\ call.ret.cols = <<0, 2>>
    /\ call.ret.width = 2

(***************************************************************************)
(* Properties of the orchestration: strategies run and results adopted     *)
(***************************************************************************)
\* how many times strategy s ran in the request so far
RanCount(s) == Cardinality({k \in 1..Len(ran) : ran[k] = s})

\* C21: the LLM is called at most once per request, and only when the
\* service was constructed at process start and ROI extraction reported
\* success; when it was not constructed no request calls it, and a request
\* whose ROI extraction succeeded still ends with a successful response.
C21_LlmOnlyWhenAvailable ==
    /\ RanCount("llm") <= 1
    /\ (RanCount("llm") = 1 \/ LlmRan) => (llm_available /\ RoiSucceeded)
    /\ ~llm_available => (RanCount("llm") = 0 /\ ~LlmRan)
    /\ (~llm_available /\ Done /\ RoiSucceeded)
          => (~escaped /\ response.success = TRUE)

\* the service is absent and a request with a successful ROI stage finished
C21_Witness ==
    /\ Done /\ ~llm_available /\ RoiSucceeded
    /\ RanCount("llm") = 0
    /\ response.success = TRUE

\* the service is present and was called once
C21_WitnessCalled == Done /\ llm_available /\ RanCount("llm") = 1

\* C22: the diagnostic trail of every response records, for each strategy
\* that ran in the request (ROI, LLM, regex), that it ran and whether it
\* succeeded: a failed LLM call gives llm_success=false and a regex attempt
\* that ran and failed gives regex_success=false.
C22_TrailRecordsOutcomes ==
    (Done /\ ~escaped)
        => LET d == response.debug_info
           IN /\ "improved_ocr_success" \in DOMAIN d
              /\ d.improved_ocr_success = RoiSucceeded
              /\ RanCount("llm") > 0
                    => /\ "llm_success" \in DOMAIN d
                       /\ d.llm_success = llm_results.extraction_success
              /\ RanCount("regex") > 0
                    => /\ "regex_success" \in DOMAIN d
                       /\ d.regex_success = regex_results.extraction_success

\* the part of C22 about the ROI strategy alone
TrailRecordsRoi ==
    (Done /\ ~escaped)
        => /\ "improved_ocr_success" \in DOMAIN response.debug_info
           /\ response.debug_info.improved_ocr_success = RoiSucceeded

\* C23: wherever ROI extraction has succeeded, the final result is chosen
\* by field completeness: the adopted structured data never has fewer
\* non-null fields among payee_name, date and amount than the ROI result it
\* replaces.
C23_NeverFewerThanRoi ==
    (Done /\ ~escaped /\ RoiSucceeded)
        => PresentCount(Data) >= PresentCount(improved_results)

\* the same for the adoption of the LLM result alone
LlmAdoptedNeverFewer ==
    (Done /\ ~escaped /\ RoiSucceeded /\ Data.method = "improved_ocr + llm")
        => PresentCount(Data) > PresentCount(improved_results)

\* C24: the candidate search invokes the engine exactly once per
\* recognition mode of uniform-text-block, single-line, single-word and
\* raw-line (tesseract's psm 13), in that order, each with the whitelist
\* when one is given.
C24_OncePerMode ==
    OcrCall
        => /\ Len(call.invoked) = NumConfigs
           /\ [k \in 1..NumConfigs |-> call.invoked[k].psm]
                 = <<UniformBlockPsm, SingleLinePsm, SingleWordPsm, 13>>
           /\ \A k \in 1..NumConfigs : call.invoked[k].whitelist = call.allow

\* what holds instead: four invocations, the first in the mode the caller
\* asked for, then single-line, single-word and uniform-block, each with
\* the caller's whitelist
InvokedAsConfigured ==
    OcrCall
        => /\ Len(call.invoked) = NumConfigs
           /\ [k \in 1..NumConfigs |-> call.invoked[k].psm]
                 = <<call.psm, SingleLinePsm, SingleWordPsm, UniformBlockPsm>>
           /\ \A k \in 1..NumConfigs : call.invoked[k].whitelist = call.allow

(***************************************************************************)
(* Properties of the ROI stage's passes                                    *)
(***************************************************************************)
PassesOf(field) == SelectSeq(passes, LAMBDA p : p.field = field)

RoiFields == {"date", "payee", "amount_numeric", "amount_words", "memo"}

\* the payee passes are taken from image first, then from image second, and
\* the second one is made exactly when the first text has fewer than 3
\* alphanumeric characters; every other field has one pass at most
PayeePassOrder(first, second) ==
    LET ps == PassesOf("payee")
    IN /\ Len(ps) <= 2
       /\ Len(ps) >= 1
             => /\ ps[1].image = first
                /\ Len(ps) = 2 <=> AlnumCount(ps[1].text) < 3
       /\ Len(ps) = 2 => ps[2].image = second
       /\ \A f \in RoiFields \ {"payee"} : Len(PassesOf(f)) <= 1

\* C25 as stated: the first payee pass runs on the deskewed image, and the
\* second, on the non-deskewed original, runs if and only if the deskewed
\* result has fewer than 3 alphanumeric characters; no other field gets a
\* second pass.
C25_DeskewedFirst == PayeePassOrder("deskewed", "original")

\* C25 amended: the first payee pass runs on the non-deskewed original, and
\* the second, on the deskewed image, runs if and only if the first result
\* has fewer than 3 alphanumeric characters; no other field gets a second
\* pass.
C25_OriginalFirst == PayeePassOrder("original", "deskewed")

\* the first pass read "Jo" and a second pass was made; all fields are done
C25_Witness ==
    /\ pc = "roi_full"
    /\ Len(PassesOf("payee")) = 2
    /\ PassesOf("payee")[1].text = <<"J", "o">>
    /\ PassesOf("payee")[2].image = "deskewed"

\* the positions of the ROI stage at which one field is read, in order
FieldPcs == <<"roi_date", "roi_payee", "roi_amount", "roi_words", "roi_memo",
              "roi_full">>

FieldStep == \E k \in 1..(Len(FieldPcs) - 1) : pc = FieldPcs[k]

AfterField(p) == FieldPcs[(CHOOSE k \in 1..Len(FieldPcs) : FieldPcs[k] = p) + 1]

\* the keys the ROI stage has filled so far
Filled(r) == DOMAIN r \ {"null"}

\* C26: a zero-area crop for one ROI is a soft failure of that field only.
\* In every step that reads a field: a pass on an empty crop gives the empty
\* text and the field read from it comes out empty or null; the fields read
\* before keep their values; and the stage goes on to the next field, never
\* to its except branch.
C26_EmptyCropIsSoft ==
    [][FieldStep
         => /\ pc' = AfterField(pc)
            /\ Len(passes') > Len(passes)
            /\ \A k \in (Len(passes) + 1)..Len(passes') :
                  passes'[k].empty => passes'[k].text = <<>>
            /\ \A key \in Filled(results) :
                  key \in Filled(results') /\ results'[key] = results[key]
            /\ passes'[Len(passes')].empty
                  => \A key \in Filled(results') \ Filled(results) :
                        results'[key] \in {None, <<>>}]_vars

\* the date crop was empty, and payee and amount were read all the same
C26_Witness ==
    /\ pc = "roi_full"
    /\ passes[1].field = "date" /\ passes[1].empty
    /\ results.raw_date = <<>> /\ results.date = <<>>
    /\ results.payee = <<"R", "o", "y", " ", "A", "n", "g">>
    /\ results.amount # <<>>

\* the characters the cleaned text may contain
AllowSet == AlnumSet \cup {" ", "$", ".", ",", "/", "'", "-", "&", "\"", "*",
                           "TM", "|", "_"}

NoWhitespaceRun(s) ==
    \A k \in 1..(Len(s) - 1) : ~(s[k] \in SpaceSet /\ s[k + 1] \in SpaceSet)

\* s without the characters outside the allow-set (whitespace is kept)
RECURSIVE Dropped(_)
Dropped(s) ==
    IF Len(s) = 0 THEN <<>>
    ELSE (IF Head(s) \in AllowSet \cup SpaceSet THEN <<Head(s)>> ELSE <<>>)
            \o Dropped(Tail(s))

\* C27: the output of _clean_text has no run of two or more whitespace
\* characters and no character outside the allow-set; the characters
\* outside the allow-set are dropped, so the output has exactly the kept
\* characters of the input that are not whitespace, in order.
C27_CleanTextNormalised ==
    (call # NullData /\ call.fn = "_clean_text")
        => /\ NoWhitespaceRun(call.ret)
           /\ \A k \in 1..Len(call.ret) : call.ret[k] \in AllowSet
           /\ SelectSeq(call.ret, LAMBDA c : c \notin SpaceSet)
                 = SelectSeq(Dropped(call.text), LAMBDA c : c \notin SpaceSet)

\* the part of C27 that holds: no character outside the allow-set is left
CleanTextAllowedOnly ==
    (call # NullData /\ call.fn = "_clean_text")
        => \A k \in 1..Len(call.ret) : call.ret[k] \in AllowSet

(***************************************************************************)
(* Properties of the adoption of the LLM result and of the routing         *)
(***************************************************************************)
LlmAdopted ==
    Done /\ ~escaped /\ Data # NullData /\ Data.method = "improved_ocr + llm"

\* C28: the LLM result is adopted only when it has all three of payee_name,
\* date and amount non-empty and the ROI result has exactly two of them
\* non-empty; a successful ROI result always has at least two non-empty
\* core fields.
C28_AdoptedOnlyThreeOverTwo ==
    /\ RoiSucceeded => PresentCount(improved_results) >= 2
    /\ LlmAdopted => /\ PresentCount(llm_results) = 3
                     /\ PresentCount(improved_results) = 2

\* the LLM result, complete, has replaced a ROI result that lacks a field
C28_Witness ==
    /\ LlmAdopted
    /\ PresentCount(llm_results) = 3
    /\ PresentCount(improved_results) = 2
    /\ ~Present(improved_results.date)
    /\ Present(Data.date)

RoiSuccessMethods == {"improved_ocr + llm", "regex_extraction", "improved_ocr_only"}

Answered == Done /\ ~escaped /\ Data # NullData

\* C29: once the ROI stage has reported success the plain full-image pass
\* never runs, and the response, unless an exception escaped, has
\* success = true, extraction_success = true and one of the three methods
\* of the success branch; "raw_ocr_only" is answered only after a failed
\* ROI stage followed by two regex attempts that both failed.
C29_RoiSuccessRouting ==
    /\ RoiSucceeded => /\ pc # "simple_ocr"
                       /\ RanCount("simple_ocr") = 0
                       /\ simple_ocr_text = None
    /\ (Done /\ ~escaped /\ RoiSucceeded)
          => /\ response.success = TRUE
             /\ Data.extraction_success = TRUE
             /\ Data.method \in RoiSuccessMethods
    /\ (Answered /\ Data.method = "raw_ocr_only")
          => /\ RoiFailed
             /\ ran = <<"roi", "regex", "simple_ocr", "regex">>
             /\ ~regex_results.extraction_success
             /\ ~Data.extraction_success

\* a successful ROI stage answered by the regex layer, the plain pass unused
C29_Witness ==
    /\ Answered
    /\ RoiSucceeded
    /\ Data.method = "regex_extraction"
    /\ RanCount("simple_ocr") = 0

\* the last resort is reached
C29_WitnessRawOnly == Answered /\ Data.method = "raw_ocr_only"

(***************************************************************************)
(* Properties of the payee retained after the two passes                   *)
(***************************************************************************)
PayeeRead == pc \in {"roi_amount", "roi_words", "roi_memo", "roi_full"}

Alnums(s) == Len(SelectSeq(s, LAMBDA c : c \in AlnumSet))

\* the payee text with the characters outside letters, digits, space and
\* ' . , & - removed, and the ends stripped
CleanedPayee(s) ==
    Strip(SelectSeq(s, LAMBDA c : c \in AlnumSet \cup {" ", "'", ".", ",", "&", "-"}))

\* C30: when the first-pass payee text has fewer than 3 alphanumeric
\* characters, the payee retained is the cleaned second-pass text whatever
\* the two texts are; they are not compared by score.
C30_SecondPassUnconditional ==
    (PayeeRead /\ Alnums(PassesOf("payee")[1].text) < 3)
        => /\ Len(PassesOf("payee")) = 2
           /\ results.payee = CleanedPayee(PassesOf("payee")[2].text)

\* the first pass read "Jo", the second nothing: the payee retained has
\* fewer alphanumeric characters than the first pass produced
C30_Witness ==
    /\ PayeeRead
    /\ PassesOf("payee")[1].text = <<"J", "o">>
    /\ Len(PassesOf("payee")) = 2
    /\ Alnums(results.payee) < Alnums(PassesOf("payee")[1].text)

====
